---- MODULE Spec2Model ----
(***************************************************************************)
(* Model of the cago cache engine (package cago: type Cago, New, Close,    *)
(* janitor, cleanup, Set, Put, Get, Exist, Remove, Clear), of               *)
(* Entry.isExpiredAt, of the binary Store of package store, and of the     *)
(* integer conversions of package lib.                                     *)
(*                                                                         *)
(* Time is the unix-millisecond wall clock.  A time.Duration is counted in *)
(* units of 1/DurPerMs millisecond, so that Duration.Milliseconds() is a   *)
(* truncating division, as in Go.                                          *)
(***************************************************************************)
EXTENDS Integers, Sequences, FiniteSets, TLC

\* ---------------------------------------------------------------- bounds
MaxTime == 2          \* the wall clock runs over 1..MaxTime (unix ms)
MaxTtl == 2           \* largest ttl a caller passes, in duration units
MaxIndex == 2         \* cap on the number of keys listed in the index

DurPerMs == 2         \* duration units per millisecond (ttl.Milliseconds())

Keys == {"a", "b"}
ConcKeys == {"a"}         \* the key two concurrent callers contend for
Threads == {"t1", "t2"}   \* caller goroutines
Callers == {"t1"}         \* the caller of the single-caller specification
Types == {"int", "string"}
TTLs == -1 .. MaxTtl

NoKey == "-"
NoType == "-"

\* Config.CleanInterval as a time.Duration
Second == 1000 * DurPerMs
CleanIntervals == {0, 2 * Second}   \* the Config a caller passes to New
NoConfig == 0                       \* no instance, no configuration

\* A stored value any(value): its dynamic type and its payload.
\* Payload 0 is the zero value of the type.
Val(t, v) == [t |-> t, v |-> v]
Values == {Val("int", 0), Val("int", 1)}
NoVal == Val(NoType, 0)
Zero(T) == Val(T, 0)

\* ----------------------------------------------------------------- state
VARIABLES
    live,       \* app # nil
    onceDone,   \* do (sync.Once) has run
    data,       \* app.data  : key -> Entry
    index,      \* app.index : expiry (unix ms) -> sequence of keys
    stopClosed, \* app.stop is closed
    doneClosed, \* app.done is closed
    jan,        \* the janitor goroutine: "none", "run", "exited"
    clock,      \* time.Now().UnixMilli()
    pc,         \* per caller goroutine: where it is inside Get / Close
    last,       \* the most recently completed call and what it returned
    config,     \* app.config.CleanInterval (NoConfig while app = nil)
    st,         \* packages store and lib: the call under test and its result
    mu,         \* app.mu (sync.RWMutex): the writer and the readers holding it
    job,        \* lock-level view: each goroutine's call in progress
    app         \* the engine's earlier draft with persistence: var app App
vars == <<live, onceDone, data, index, stopClosed, doneClosed, jan, clock, pc, last,
          config, st, mu, job, app>>

Idle == [at |-> "idle", key |-> NoKey, T |-> NoType]

Panicked == last.err = "panic"

\* Record of a completed call: the operation, the error it returned
\* ("panic" when it panicked), its boolean result and its value result.
Ret(op, err, ok, out) == [op |-> op, err |-> err, ok |-> ok, out |-> out]

\* mutant: the call returns as if it had done its work
PanicRetSilent(op) == Ret(op, "nil", FALSE, NoVal)

PanicRet(op) == Ret(op, "panic", FALSE, NoVal)

\* ------------------------------------------------------------- entry.go
Entry(k, v, exp, now) ==
    [Key |-> k, Value |-> v, ExpiresAt |-> exp, CreatedAt |-> now, UpdatedAt |-> now]

\* mutant: the boundary instant is not yet expired
isExpiredAtStrict(e, nowMs) == e.ExpiresAt > 0 /\ nowMs > e.ExpiresAt

isExpiredAt(e, nowMs) == e.ExpiresAt > 0 /\ nowMs >= e.ExpiresAt

\* time.Duration.Milliseconds(): integer division truncated toward zero
Milliseconds(d) == IF d >= 0 THEN d \div DurPerMs ELSE -((-d) \div DurPerMs)

\* mutant: the ttl is rounded up to whole milliseconds
expOfRoundUp(nowMs, ttl) ==
    IF ttl > 0 THEN nowMs + ((ttl + DurPerMs - 1) \div DurPerMs) ELSE 0

\* var exp int64; if ttl > 0 { exp = nowMs + ttl.Milliseconds() }
expOf(nowMs, ttl) == IF ttl > 0 THEN nowMs + Milliseconds(ttl) ELSE 0

\* app.index[exp] = append(app.index[exp], key)   (only when exp > 0)
indexAppend(idx, exp, k) ==
    IF exp > 0
    THEN [t \in DOMAIN idx \cup {exp} |->
            IF t = exp
            THEN (IF exp \in DOMAIN idx THEN Append(idx[exp], k) ELSE <<k>>)
            ELSE idx[t]]
    ELSE idx

RECURSIVE sumLen(_, _)
sumLen(idx, S) ==
    IF S = {} THEN 0
    ELSE LET x == CHOOSE y \in S : TRUE IN Len(idx[x]) + sumLen(idx, S \ {x})

\* number of keys listed in the index, over all buckets
indexSize(idx) == sumLen(idx, DOMAIN idx)

IndexRoom(idx, exp) == exp > 0 => indexSize(idx) < MaxIndex

Range(s) == {s[i] : i \in DOMAIN s}
Without(f, S) == [x \in DOMAIN f \ S |-> f[x]]
Empty == <<>>

\* --------------------------------------------------------- sync.RWMutex
NoHolder == "-"
Janitor == "janitor"
Goroutines == Threads \cup {Janitor}
MuFree == [w |-> NoHolder, r |-> {}]

\* mutant: the write lock is handed to a second writer
canLockShared(m) == m.r = {}

\* mu.Lock() goes through when nobody holds the mutex
canLock(m) == m.w = NoHolder /\ m.r = {}

\* mutant: a reader gets in while a writer holds the mutex
canRLockAlways(m) == TRUE

\* mu.RLock() goes through when no writer holds the mutex
canRLock(m) == m.w = NoHolder

NoEntry == Entry(NoKey, NoVal, 0, 0)

\* a goroutine's call in progress: where it is (at), the call (op, key, T),
\* the nowMs it took, the entry it built or read (e) and its flag (ok)
JobIdle == [at |-> "idle", op |-> "none", key |-> NoKey, T |-> NoType,
            now |-> 0, e |-> NoEntry, ok |-> FALSE]

\* ------------------------------------------------------------ lifecycle
\* package store is not in use
NoStoreCall == [op |-> "none"]

\* var app App = App{} of the draft with persistence: no map yet (made),
\* no database handle (db), no sweeper started (node); rows is the table of
\* the database file and dbok tells whether the database answers its calls
AppZero(rows) ==
    [made |-> FALSE, data |-> Empty, db |-> FALSE, node |-> FALSE, rows |-> rows, dbok |-> TRUE]
NoApp == AppZero(Empty)

\* the process starts: no instance, no call made
InitEngine ==
    /\ live = FALSE
    /\ onceDone = FALSE
    /\ data = Empty
    /\ index = Empty
    /\ stopClosed = FALSE
    /\ doneClosed = FALSE
    /\ jan = "none"
    /\ clock = 1
    /\ pc = [t \in Threads |-> Idle]
    /\ last = Ret("none", "nil", FALSE, NoVal)
    /\ config = NoConfig
    /\ mu = MuFree
    /\ job = [t \in Goroutines |-> JobIdle]

Init == InitEngine /\ st = NoStoreCall /\ app = NoApp

CanCall(t) == ~Panicked /\ pc[t].at = "idle"

\* if cfg.CleanInterval <= 0 { cfg.CleanInterval = 1 * time.Second }
cleanIntervalOf(cfg) == IF cfg <= 0 THEN 1 * Second ELSE cfg

\* the function New hands to do.Do: app = &Cago{...}; go app.janitor()
createApp(cfg) ==
    /\ live' = TRUE
    /\ onceDone' = TRUE
    /\ data' = Empty
    /\ index' = Empty
    /\ stopClosed' = FALSE
    /\ doneClosed' = FALSE
    /\ jan' = "run"
    /\ config' = cleanIntervalOf(cfg)

\* mutant: New builds a new instance on every call
NewAlways(t, cfg) ==
    /\ CanCall(t)
    /\ createApp(cfg)
    /\ last' = Ret("New", "nil", TRUE, NoVal)
    /\ UNCHANGED <<clock, pc, st, mu, job, app>>

\* New(conf ...Config): do.Do(func() { ... }); return nil
New(t, cfg) ==
    /\ CanCall(t)
    /\ IF onceDone
       THEN UNCHANGED <<live, onceDone, data, index, stopClosed, doneClosed, jan, config>>
       ELSE createApp(cfg)
    /\ last' = Ret("New", "nil", TRUE, NoVal)
    /\ UNCHANGED <<clock, pc, st, mu, job, app>>

\* Close, first part: nil check, then under the lock close(app.stop) unless
\* app.done is already closed.  Closing a closed channel panics.
CloseBegin(t) ==
    /\ CanCall(t)
    /\ IF ~live
       THEN /\ last' = Ret("Close", "nil", TRUE, NoVal)
            /\ UNCHANGED <<stopClosed, pc>>
       ELSE IF doneClosed
            THEN /\ pc' = [pc EXCEPT ![t] = [Idle EXCEPT !.at = "close"]]
                 /\ UNCHANGED <<stopClosed, last>>
            ELSE IF stopClosed
                 THEN /\ last' = PanicRet("Close")
                      /\ UNCHANGED <<stopClosed, pc>>
                 ELSE /\ stopClosed' = TRUE
                      /\ pc' = [pc EXCEPT ![t] = [Idle EXCEPT !.at = "close"]]
                      /\ UNCHANGED last
    /\ UNCHANGED <<live, onceDone, data, index, doneClosed, jan, clock>>
    /\ UNCHANGED <<config, st, mu, job, app>>

\* mutant: Close clears the instance and leaves the once-guard spent
CloseEndKeepsOnce(t) ==
    /\ ~Panicked
    /\ pc[t].at = "close"
    /\ IF ~live
       THEN /\ last' = PanicRet("Close")
            /\ pc' = [pc EXCEPT ![t] = Idle]
            /\ UNCHANGED <<live, onceDone, data, index, config>>
       ELSE /\ doneClosed
            /\ live' = FALSE
            /\ onceDone' = onceDone
            /\ data' = Empty
            /\ index' = Empty
            /\ config' = NoConfig
            /\ pc' = [pc EXCEPT ![t] = Idle]
            /\ last' = Ret("Close", "nil", TRUE, NoVal)
    /\ UNCHANGED <<stopClosed, doneClosed, jan, clock, st, mu, job, app>>

\* Close, second part: <-app.done; app = nil; do = sync.Once{}
CloseEnd(t) ==
    /\ ~Panicked
    /\ pc[t].at = "close"
    /\ IF ~live
       THEN /\ last' = PanicRet("Close")
            /\ pc' = [pc EXCEPT ![t] = Idle]
            /\ UNCHANGED <<live, onceDone, data, index, config>>
       ELSE /\ doneClosed
            /\ live' = FALSE
            /\ onceDone' = FALSE
            /\ data' = Empty
            /\ index' = Empty
            /\ config' = NoConfig
            /\ pc' = [pc EXCEPT ![t] = Idle]
            /\ last' = Ret("Close", "nil", TRUE, NoVal)
    /\ UNCHANGED <<stopClosed, doneClosed, jan, clock, st, mu, job, app>>

\* ------------------------------------------------------------- janitor
\* cleanup(now): for every bucket exp <= nowMs, delete the keys whose
\* entry is expired at nowMs, then delete the bucket.
\* mutant: a bucket is due only once its expiry is strictly in the past
cleanupDataLate(d, idx, nowMs) ==
    LET due == {exp \in DOMAIN idx : exp < nowMs}
        dead == {k \in DOMAIN d :
                    /\ \E exp \in due : k \in Range(idx[exp])
                    /\ isExpiredAt(d[k], nowMs)}
    IN  Without(d, dead)

\* mutant: every key a due bucket names is deleted, whatever its entry says
cleanupDataBlind(d, idx, nowMs) ==
    LET due == {exp \in DOMAIN idx : exp <= nowMs}
        dead == {k \in DOMAIN d : \E exp \in due : k \in Range(idx[exp])}
    IN  Without(d, dead)

cleanupData(d, idx, nowMs) ==
    LET due == {exp \in DOMAIN idx : exp <= nowMs}
        dead == {k \in DOMAIN d :
                    /\ \E exp \in due : k \in Range(idx[exp])
                    /\ isExpiredAt(d[k], nowMs)}
    IN  Without(d, dead)

\* mutant: a bucket is dropped one millisecond before it is due
cleanupIndexEarly(idx, nowMs) == Without(idx, {exp \in DOMAIN idx : exp <= nowMs + 1})

cleanupIndex(idx, nowMs) == Without(idx, {exp \in DOMAIN idx : exp <= nowMs})

\* janitor: case <-ticker.C: c.cleanup(time.Now())
Sweep ==
    /\ ~Panicked
    /\ jan = "run"
    /\ data' = cleanupData(data, index, clock)
    /\ index' = cleanupIndex(index, clock)
    /\ UNCHANGED <<live, onceDone, stopClosed, doneClosed, jan, clock, pc, last>>
    /\ UNCHANGED <<config, st, mu, job, app>>

\* mutant: the janitor closes done and goes on running
JanitorExitEarly ==
    /\ ~Panicked
    /\ jan = "run"
    /\ stopClosed
    /\ jan' = jan
    /\ doneClosed' = TRUE
    /\ UNCHANGED <<live, onceDone, data, index, stopClosed, clock, pc, last>>
    /\ UNCHANGED <<config, st, mu, job, app>>

\* janitor: case <-c.stop: return   (deferred: ticker.Stop(); close(c.done))
JanitorExit ==
    /\ ~Panicked
    /\ jan = "run"
    /\ stopClosed
    /\ jan' = "exited"
    /\ doneClosed' = TRUE
    /\ UNCHANGED <<live, onceDone, data, index, stopClosed, clock, pc, last>>
    /\ UNCHANGED <<config, st, mu, job, app>>

\* the wall clock advances
Tick ==
    /\ ~Panicked
    /\ clock < MaxTime
    /\ clock' = clock + 1
    /\ UNCHANGED <<live, onceDone, data, index, stopClosed, doneClosed, jan, pc, last>>
    /\ UNCHANGED <<config, st, mu, job, app>>

\* ----------------------------------------------------------- operations
\* mutant: an existing key keeps its entry
mapSetIfAbsent(d, k, e) ==
    IF k \in DOMAIN d THEN d ELSE [x \in DOMAIN d \cup {k} |-> IF x = k THEN e ELSE d[x]]

\* app.data[key] = e
mapSet(d, k, e) == [x \in DOMAIN d \cup {k} |-> IF x = k THEN e ELSE d[x]]

\* mutant: any entry in the table blocks Set, expired or not
setConflictIgnoresExpiry(d, k, nowMs) == k \in DOMAIN d

\* the check at the head of Set: if e, ok := app.data[key]; ok && !e.isExpiredAt(nowMs)
setConflict(d, k, nowMs) == k \in DOMAIN d /\ ~isExpiredAt(d[k], nowMs)

\* mutant: a refused Set still stamps the entry it found
SetTouches(t, k, v, ttl) ==
    /\ CanCall(t)
    /\ IF ~live
       THEN /\ last' = PanicRet("Set")
            /\ UNCHANGED <<data, index>>
       ELSE LET nowMs == clock
                exp == expOf(nowMs, ttl)
            IN  IF setConflict(data, k, nowMs)
                THEN /\ last' = Ret("Set", "ErrKeyExists", FALSE, NoVal)
                     /\ data' = [data EXCEPT ![k].UpdatedAt = nowMs]
                     /\ UNCHANGED index
                ELSE /\ IndexRoom(index, exp)
                     /\ data' = mapSet(data, k, Entry(k, v, exp, nowMs))
                     /\ index' = indexAppend(index, exp, k)
                     /\ last' = Ret("Set", "nil", TRUE, NoVal)
    /\ UNCHANGED <<live, onceDone, stopClosed, doneClosed, jan, clock, pc>>
    /\ UNCHANGED <<config, st, mu, job, app>>

\* Set[T](key, value, ttl) error
Set(t, k, v, ttl) ==
    /\ CanCall(t)
    /\ IF ~live
       THEN /\ last' = PanicRet("Set")
            /\ UNCHANGED <<data, index>>
       ELSE LET nowMs == clock
                exp == expOf(nowMs, ttl)
            IN  IF setConflict(data, k, nowMs)
                THEN /\ last' = Ret("Set", "ErrKeyExists", FALSE, NoVal)
                     /\ UNCHANGED <<data, index>>
                ELSE /\ IndexRoom(index, exp)
                     /\ data' = mapSet(data, k, Entry(k, v, exp, nowMs))
                     /\ index' = indexAppend(index, exp, k)
                     /\ last' = Ret("Set", "nil", TRUE, NoVal)
    /\ UNCHANGED <<live, onceDone, stopClosed, doneClosed, jan, clock, pc>>
    /\ UNCHANGED <<config, st, mu, job, app>>

\* Put[T](key, value, ttl)
Put(t, k, v, ttl) ==
    /\ CanCall(t)
    /\ IF ~live
       THEN /\ last' = PanicRet("Put")
            /\ UNCHANGED <<data, index>>
       ELSE LET nowMs == clock
                exp == expOf(nowMs, ttl)
            IN  /\ IndexRoom(index, exp)
                /\ data' = mapSet(data, k, Entry(k, v, exp, nowMs))
                /\ index' = indexAppend(index, exp, k)
                /\ last' = Ret("Put", "nil", TRUE, NoVal)
    /\ UNCHANGED <<live, onceDone, stopClosed, doneClosed, jan, clock, pc>>
    /\ UNCHANGED <<config, st, mu, job, app>>

\* mutant: the value is handed back without the type check
typeAssertUnchecked(e, T) == [v |-> e.Value, ok |-> TRUE]

\* v, ok := e.Value.(T)
typeAssert(e, T) == IF e.Value.t = T THEN [v |-> e.Value, ok |-> TRUE]
                                     ELSE [v |-> Zero(T), ok |-> FALSE]

\* Get[T](key) (T, bool): the read under RLock, the expiry test and the
\* type assertion.  An expired entry sends the caller on to the lazy delete.
Get(t, k, T) ==
    /\ CanCall(t)
    /\ IF ~live
       THEN /\ last' = PanicRet("Get")
            /\ UNCHANGED pc
       ELSE LET nowMs == clock
            IN  IF k \notin DOMAIN data
                THEN /\ last' = Ret("Get", "nil", FALSE, Zero(T))
                     /\ UNCHANGED pc
                ELSE IF isExpiredAt(data[k], nowMs)
                     THEN /\ pc' = [pc EXCEPT ![t] = [at |-> "lazy", key |-> k, T |-> T]]
                          /\ UNCHANGED last
                     ELSE LET r == typeAssert(data[k], T)
                          IN  /\ last' = Ret("Get", "nil", r.ok, r.v)
                              /\ UNCHANGED pc
    /\ UNCHANGED <<live, onceDone, data, index, stopClosed, doneClosed, jan, clock>>
    /\ UNCHANGED <<config, st, mu, job, app>>

\* mutant: the key is left in the table
removeKeyKeeps(d, k) == d

\* Remove: if _, ok := app.data[key]; ok { delete(app.data, key) }
removeKey(d, k) == Without(d, {k})

\* mutant: the expired entry is reported not-found and left in the table
GetLazyLeaves(t) ==
    /\ ~Panicked
    /\ pc[t].at = "lazy"
    /\ pc' = [pc EXCEPT ![t] = Idle]
    /\ IF ~live
       THEN /\ last' = PanicRet("Get")
            /\ UNCHANGED data
       ELSE /\ data' = data
            /\ last' = Ret("Get", "nil", FALSE, Zero(pc[t].T))
    /\ UNCHANGED <<live, onceDone, index, stopClosed, doneClosed, jan, clock>>
    /\ UNCHANGED <<config, st, mu, job, app>>

\* Get, lazy delete: Remove(key); return zero, false
GetLazy(t) ==
    /\ ~Panicked
    /\ pc[t].at = "lazy"
    /\ pc' = [pc EXCEPT ![t] = Idle]
    /\ IF ~live
       THEN /\ last' = PanicRet("Get")
            /\ UNCHANGED data
       ELSE /\ data' = removeKey(data, pc[t].key)
            /\ last' = Ret("Get", "nil", FALSE, Zero(pc[t].T))
    /\ UNCHANGED <<live, onceDone, index, stopClosed, doneClosed, jan, clock>>
    /\ UNCHANGED <<config, st, mu, job, app>>

\* mutant: presence alone counts, expired or not
existResultIgnoresExpiry(d, k, nowMs) == k \in DOMAIN d

\* Exist(key) bool: return ok && !e.isExpiredAt(nowMs)
existResult(d, k, nowMs) == k \in DOMAIN d /\ ~isExpiredAt(d[k], nowMs)

Exist(t, k) ==
    /\ CanCall(t)
    /\ IF ~live
       THEN last' = PanicRet("Exist")
       ELSE last' = Ret("Exist", "nil", existResult(data, k, clock), NoVal)
    /\ UNCHANGED <<live, onceDone, data, index, stopClosed, doneClosed, jan, clock, pc>>
    /\ UNCHANGED <<config, st, mu, job, app>>

\* mutant: Remove also strikes the key from the buckets that list it
RemoveUnlists(t, k) ==
    /\ CanCall(t)
    /\ IF ~live
       THEN /\ last' = PanicRet("Remove")
            /\ UNCHANGED <<data, index>>
       ELSE /\ data' = removeKey(data, k)
            /\ index' = Without(index, {exp \in DOMAIN index : k \in Range(index[exp])})
            /\ last' = Ret("Remove", "nil", k \in DOMAIN data, NoVal)
    /\ UNCHANGED <<live, onceDone, stopClosed, doneClosed, jan, clock, pc>>
    /\ UNCHANGED <<config, st, mu, job, app>>

\* Remove(key) bool
Remove(t, k) ==
    /\ CanCall(t)
    /\ IF ~live
       THEN /\ last' = PanicRet("Remove")
            /\ UNCHANGED data
       ELSE /\ data' = removeKey(data, k)
            /\ last' = Ret("Remove", "nil", k \in DOMAIN data, NoVal)
    /\ UNCHANGED <<live, onceDone, index, stopClosed, doneClosed, jan, clock, pc>>
    /\ UNCHANGED <<config, st, mu, job, app>>

\* Clear: app.data = make(map[string]*Entry); app.index = make(map[int64][]string)
clearData(d) == Empty

\* mutant: the expiry index is not reset
clearIndexKeeps(idx) == idx

clearIndex(idx) == Empty

\* Clear()
Clear(t) ==
    /\ CanCall(t)
    /\ IF ~live
       THEN /\ last' = PanicRet("Clear")
            /\ UNCHANGED <<data, index>>
       ELSE /\ data' = clearData(data)
            /\ index' = clearIndex(index)
            /\ last' = Ret("Clear", "nil", TRUE, NoVal)
    /\ UNCHANGED <<live, onceDone, stopClosed, doneClosed, jan, clock, pc>>
    /\ UNCHANGED <<config, st, mu, job, app>>

\* ------------------------------------------------- operations, lock level
\* The same operations one lock operation and one map operation at a time:
\* the call takes nowMs and builds its entry, takes the mutex, works on
\* app.data, then on app.index, and releases the mutex.
coarseVars == <<live, onceDone, stopClosed, doneClosed, jan, pc, config, st, app>>

\* the head of Set / Put / Remove / Clear / Get / Exist, up to the Lock or
\* RLock call: the nil check, nowMs and exp
Begin(t, op, k, T, v, ttl) ==
    /\ ~Panicked
    /\ live
    /\ job[t].at = "idle"
    /\ job' = [job EXCEPT ![t] =
                 [at |-> IF op \in {"Get", "Exist"} THEN "rlock" ELSE "lock",
                  op |-> op, key |-> k, T |-> T, now |-> clock,
                  e |-> IF op \in {"Set", "Put"}
                        THEN Entry(k, v, expOf(clock, ttl), clock)
                        ELSE NoEntry,
                  ok |-> FALSE]]
    /\ UNCHANGED <<data, index, clock, last, mu>>
    /\ UNCHANGED coarseVars

\* janitor: case <-ticker.C: c.cleanup(time.Now()), up to c.mu.Lock()
cleanupBegin ==
    /\ ~Panicked
    /\ live /\ jan = "run"
    /\ job[Janitor].at = "idle"
    /\ job' = [job EXCEPT ![Janitor] =
                 [JobIdle EXCEPT !.at = "lock", !.op = "cleanup", !.now = clock]]
    /\ UNCHANGED <<data, index, clock, last, mu>>
    /\ UNCHANGED coarseVars

\* app.mu.Lock()
muLock(g) ==
    /\ job[g].at = "lock"
    /\ canLock(mu)
    /\ mu' = [mu EXCEPT !.w = g]
    /\ job' = [job EXCEPT ![g].at = "data"]
    /\ UNCHANGED <<data, index, clock, last>>
    /\ UNCHANGED coarseVars

\* app.mu.RLock()
muRLock(t) ==
    /\ job[t].at = "rlock"
    /\ canRLock(mu)
    /\ mu' = [mu EXCEPT !.r = @ \cup {t}]
    /\ job' = [job EXCEPT ![t].at = "read"]
    /\ UNCHANGED <<data, index, clock, last>>
    /\ UNCHANGED coarseVars

\* the work on app.data inside the critical section
writeData(g) ==
    /\ job[g].at = "data"
    /\ LET j == job[g] IN
         CASE j.op = "Set" ->
                IF setConflict(data, j.key, j.now)
                THEN /\ job' = [job EXCEPT ![g].at = "unlock", ![g].ok = FALSE]
                     /\ UNCHANGED data
                ELSE /\ IndexRoom(index, j.e.ExpiresAt)
                     /\ data' = mapSet(data, j.key, j.e)
                     /\ job' = [job EXCEPT ![g].at = "index", ![g].ok = TRUE]
           [] j.op = "Put" ->
                /\ IndexRoom(index, j.e.ExpiresAt)
                /\ data' = mapSet(data, j.key, j.e)
                /\ job' = [job EXCEPT ![g].at = "index", ![g].ok = TRUE]
           [] j.op \in {"Remove", "Lazy"} ->
                /\ data' = removeKey(data, j.key)
                /\ job' = [job EXCEPT ![g].at = "unlock", ![g].ok = (j.key \in DOMAIN data)]
           [] j.op = "Clear" ->
                /\ data' = clearData(data)
                /\ job' = [job EXCEPT ![g].at = "index", ![g].ok = TRUE]
           [] j.op = "cleanup" ->
                /\ data' = cleanupData(data, index, j.now)
                /\ job' = [job EXCEPT ![g].at = "index"]
    /\ UNCHANGED <<index, clock, last, mu>>
    /\ UNCHANGED coarseVars

\* mutant: only Set lists the key it stored; Put leaves the index alone
writeIndexSetOnly(g) ==
    /\ job[g].at = "index"
    /\ LET j == job[g] IN
         CASE j.op = "Set" -> index' = indexAppend(index, j.e.ExpiresAt, j.key)
           [] j.op = "Put" -> index' = index
           [] j.op = "Clear" -> index' = clearIndex(index)
           [] j.op = "cleanup" -> index' = cleanupIndex(index, j.now)
    /\ job' = [job EXCEPT ![g].at = "unlock"]
    /\ UNCHANGED <<data, clock, last, mu>>
    /\ UNCHANGED coarseVars

\* the work on app.index inside the critical section
writeIndex(g) ==
    /\ job[g].at = "index"
    /\ LET j == job[g] IN
         CASE j.op \in {"Set", "Put"} -> index' = indexAppend(index, j.e.ExpiresAt, j.key)
           [] j.op = "Clear" -> index' = clearIndex(index)
           [] j.op = "cleanup" -> index' = cleanupIndex(index, j.now)
    /\ job' = [job EXCEPT ![g].at = "unlock"]
    /\ UNCHANGED <<data, clock, last, mu>>
    /\ UNCHANGED coarseVars

\* app.mu.Unlock() and the return
muUnlock(g) ==
    /\ job[g].at = "unlock"
    /\ mu' = [mu EXCEPT !.w = NoHolder]
    /\ job' = [job EXCEPT ![g] = JobIdle]
    /\ LET j == job[g] IN
         CASE j.op = "Set" ->
                last' = IF j.ok THEN Ret("Set", "nil", TRUE, NoVal)
                                ELSE Ret("Set", "ErrKeyExists", FALSE, NoVal)
           [] j.op = "Lazy" -> last' = Ret("Get", "nil", FALSE, Zero(j.T))
           [] j.op = "cleanup" -> last' = last
           [] OTHER -> last' = Ret(j.op, "nil", j.ok, NoVal)
    /\ UNCHANGED <<data, index, clock>>
    /\ UNCHANGED coarseVars

\* what a map read that overlaps a write of the same map may return: such a
\* read is a data race, so it may see the entry before the write, the entry
\* being written, or a mixture of the two
racyReads(d, k, w) ==
    LET old == IF k \in DOMAIN d THEN {[e |-> d[k], ok |-> TRUE]}
                                 ELSE {[e |-> NoEntry, ok |-> FALSE]}
        new == IF w.op \in {"Set", "Put"} /\ w.key = k
               THEN {[e |-> w.e, ok |-> TRUE]}
               ELSE {[e |-> NoEntry, ok |-> FALSE]}
        mix == {[e |-> [a.e EXCEPT !.ExpiresAt = b.e.ExpiresAt], ok |-> TRUE] :
                    a \in {x \in old \cup new : x.ok}, b \in {x \in old \cup new : x.ok}}
    IN  old \cup new \cup mix

\* e, ok := app.data[key]
readEntry(t) ==
    /\ job[t].at = "read"
    /\ LET k == job[t].key IN
         IF mu.w = NoHolder
         THEN job' = [job EXCEPT ![t].at = "runlock",
                                 ![t].ok = (k \in DOMAIN data),
                                 ![t].e = IF k \in DOMAIN data THEN data[k] ELSE NoEntry]
         ELSE \E x \in racyReads(data, k, job[mu.w]) :
                 job' = [job EXCEPT ![t].at = "runlock", ![t].ok = x.ok, ![t].e = x.e]
    /\ UNCHANGED <<data, index, clock, last, mu>>
    /\ UNCHANGED coarseVars

\* app.mu.RUnlock() and what Get / Exist do with the entry they read; a Get
\* that read an expired entry goes on to Remove(key)
muRUnlock(t) ==
    /\ job[t].at = "runlock"
    /\ mu' = [mu EXCEPT !.r = @ \ {t}]
    /\ LET j == job[t] IN
         IF j.op = "Exist"
         THEN /\ last' = Ret("Exist", "nil", j.ok /\ ~isExpiredAt(j.e, j.now), NoVal)
              /\ job' = [job EXCEPT ![t] = JobIdle]
         ELSE IF ~j.ok
              THEN /\ last' = Ret("Get", "nil", FALSE, Zero(j.T))
                   /\ job' = [job EXCEPT ![t] = JobIdle]
              ELSE IF isExpiredAt(j.e, j.now)
                   THEN /\ job' = [job EXCEPT ![t].at = "lock", ![t].op = "Lazy"]
                        /\ UNCHANGED last
                   ELSE /\ last' = Ret("Get", "nil", typeAssert(j.e, j.T).ok, typeAssert(j.e, j.T).v)
                        /\ job' = [job EXCEPT ![t] = JobIdle]
    /\ UNCHANGED <<data, index, clock>>
    /\ UNCHANGED coarseVars

\* -------------------------------------------------------- package store
\* A Store is a byte sequence: four big-endian 8-byte words (createdAt,
\* updatedAt, maxAge, payload length) and then the payload.  Go's indices
\* are 0-based; s[lo:hi] is slice(s, lo, hi).
CreateAtIndex == 0
UpdateAtIndex == 8
MaxAgeIndex == 16
LengthIndex == 24
DataStartIndex == 32
Uint64Len == 8        \* bytes of a uint64
ByteBase == 256       \* values of a byte

slice(s, lo, hi) == SubSeq(s, lo + 1, hi)

\* binary.BigEndian.PutUint64: the n low-order bytes of v, most significant first
RECURSIVE BigEndian(_, _)
BigEndian(v, n) ==
    IF n = 0 THEN <<>> ELSE Append(BigEndian(v \div ByteBase, n - 1), v % ByteBase)

PutUint64(v) == BigEndian(v, Uint64Len)

\* binary.BigEndian.Uint64(b): the value of the first 8 bytes of b
RECURSIVE beValue(_, _)
beValue(b, n) == IF n = 0 THEN 0 ELSE beValue(b, n - 1) * ByteBase + b[n]

Uint64(b) == beValue(b, Uint64Len)

\* writing bytes into s from 0-based index at on (PutUint64(s[at:], v), copy)
putAt(s, at, bytes) ==
    [i \in 1 .. Len(s) |->
        IF at < i /\ i <= at + Len(bytes) THEN bytes[i - at] ELSE s[i]]

\* mutant: the payload is not copied into the buffer
NewStoreNoCopy(payload, maxAge, now) ==
    LET MaxAge == IF Len(maxAge) > 0 THEN maxAge[1] ELSE 0
        s0 == [i \in 1 .. DataStartIndex + Len(payload) |-> 0]
        s1 == putAt(s0, CreateAtIndex, PutUint64(now))
        s2 == [i \in 1 .. Len(s1) |->
                  IF UpdateAtIndex < i /\ i <= MaxAgeIndex THEN 0 ELSE s1[i]]
        s3 == putAt(s2, MaxAgeIndex, PutUint64(MaxAge))
    IN  putAt(s3, LengthIndex, PutUint64(Len(payload)))

\* NewStore(data []byte, maxAge ...uint64) Store, at time now
NewStore(payload, maxAge, now) ==
    LET MaxAge == IF Len(maxAge) > 0 THEN maxAge[1] ELSE 0
        s0 == [i \in 1 .. DataStartIndex + Len(payload) |-> 0]
        s1 == putAt(s0, CreateAtIndex, PutUint64(now))
        s2 == [i \in 1 .. Len(s1) |->
                  IF UpdateAtIndex < i /\ i <= MaxAgeIndex THEN 0 ELSE s1[i]]
        s3 == putAt(s2, MaxAgeIndex, PutUint64(MaxAge))
        s4 == putAt(s3, LengthIndex, PutUint64(Len(payload)))
    IN  putAt(s4, DataStartIndex, payload)

\* mutant: a buffer that is all header is refused as well
ParseStoreStrict(buf) == IF Len(buf) <= DataStartIndex THEN <<>> ELSE buf

\* ParseStore(data []byte) Store
ParseStore(buf) == IF Len(buf) < DataStartIndex THEN <<>> ELSE buf

\* the accessors; each needs a Store of at least DataStartIndex bytes
CreateAt(s) == Uint64(slice(s, CreateAtIndex, UpdateAtIndex))
UpdateAt(s) == Uint64(slice(s, UpdateAtIndex, MaxAgeIndex))

\* mutant: the word read is the payload length
MaxAgeWrongWord(s) == Uint64(slice(s, LengthIndex, DataStartIndex))

MaxAge(s) == Uint64(slice(s, MaxAgeIndex, LengthIndex))

\* Length(all ...bool)
Length(s, all) == IF all THEN Len(s) ELSE Uint64(slice(s, LengthIndex, Len(s)))

Bytes(s) == slice(s, DataStartIndex, Len(s))

SetLength(s, length) == putAt(s, LengthIndex, PutUint64(length))

\* Store.Int() (int, error): the length field decides whether the payload
\* is decoded; Uint64 of fewer than 8 bytes is an index out of range
StoreInt(s) ==
    IF Len(s) < DataStartIndex
    THEN [panic |-> TRUE, err |-> FALSE, n |-> 0]
    ELSE IF Length(s, FALSE) < Uint64Len
         THEN [panic |-> FALSE, err |-> TRUE, n |-> 0]
         ELSE IF Len(Bytes(s)) < Uint64Len
              THEN [panic |-> TRUE, err |-> FALSE, n |-> 0]
              ELSE [panic |-> FALSE, err |-> FALSE, n |-> Uint64(Bytes(s))]

\* ---- the calls under test
MaxBuf == 34          \* longest raw buffer handed to ParseStore

Payloads == {<<>>, <<7>>, <<1, 2, 3>>, <<0, 0, 0, 0, 0, 0, 1, 2>>,
             <<0, 0, 0, 0, 0, 1, 0, 255, 9>>}
MaxAges == {<<>>, <<0>>, <<1>>, <<256>>, <<65537>>}
Fills == {0, 1, 255}
SetLengths == {0, 8}

\* a raw buffer of n bytes: the three low-order bytes of every 8-byte word
\* hold f, the other bytes are zero
rawBuffer(n, f) == [i \in 1 .. n |-> IF (i - 1) % Uint64Len >= 5 THEN f ELSE 0]

StoreCall(op, p, a, b, s, now) ==
    [op |-> op, p |-> p, a |-> a, b |-> b, s |-> s, now |-> now,
     made |-> FALSE, set |-> FALSE, res |-> [panic |-> FALSE, err |-> FALSE, n |-> 0]]

\* the inputs: a payload and a maxAge for NewStore, or a raw buffer
StoreInputs ==
    {StoreCall("input", p, a, <<>>, <<>>, 0) : p \in Payloads, a \in MaxAges}
    \cup {StoreCall("raw", <<>>, <<>>, <<>>, rawBuffer(n, f), 0) : n \in 0 .. MaxBuf, f \in Fills}

InitStore == InitEngine /\ st \in StoreInputs /\ app = NoApp

engineVars == <<live, onceDone, data, index, stopClosed, doneClosed, jan, pc, last,
                config, mu, job, app>>

\* s := store.NewStore(p, a...)
callNewStore ==
    /\ st.op = "input"
    /\ st' = [st EXCEPT !.op = "NewStore", !.s = NewStore(st.p, st.a, clock),
                        !.now = clock, !.made = TRUE]
    /\ UNCHANGED clock
    /\ UNCHANGED engineVars

\* s = store.ParseStore(s)
callParseStore ==
    /\ st.op \in {"raw", "NewStore", "SetLength"}
    /\ ~st.res.panic
    /\ st' = [st EXCEPT !.op = "ParseStore", !.b = st.s, !.s = ParseStore(st.s)]
    /\ UNCHANGED clock
    /\ UNCHANGED engineVars

\* s = s.SetLength(n); on a Store shorter than its header the write panics
callSetLength(n) ==
    /\ st.op \in {"NewStore", "ParseStore"}
    /\ IF Len(st.s) < DataStartIndex
       THEN st' = [st EXCEPT !.op = "SetLength", !.res.panic = TRUE]
       ELSE st' = [st EXCEPT !.op = "SetLength", !.s = SetLength(st.s, n), !.set = TRUE]
    /\ UNCHANGED clock
    /\ UNCHANGED engineVars

\* n, err := s.Int()
callInt ==
    /\ st.op \in {"NewStore", "ParseStore", "SetLength"}
    /\ ~st.res.panic
    /\ st' = [st EXCEPT !.op = "Int", !.res = StoreInt(st.s)]
    /\ UNCHANGED clock
    /\ UNCHANGED engineVars

\* ------------------------------------------------------------ package lib
\* The integer conversions of package lib.  UintNToByte writes num with
\* binary.BigEndian.PutUintN; IntNToByte hands intN(num) to binary.Write,
\* which writes uintN(num), the value modulo 2^N, the same way.  The n
\* low-order bytes of num, taken with the division that rounds down, are the
\* bytes of num modulo 2^(8n).
LibFns == {"Uint8ToByte", "Uint16ToByte", "Uint32ToByte", "Uint64ToByte",
           "Int8ToByte", "Int16ToByte", "Int32ToByte", "Int64ToByte"}

Uint8ToByte(num) == <<num>>
Uint16ToByte(num) == BigEndian(num, 2)
Uint32ToByte(num) == BigEndian(num, 4)
Uint64ToByte(num) == BigEndian(num, Uint64Len)

\* mutant: every negative value is written as the byte 255
Int8ToByteAllOnes(num) == <<IF num < 0 THEN ByteBase - 1 ELSE num>>

Int8ToByte(num) == <<num % ByteBase>>
Int16ToByte(num) == BigEndian(num, 2)
Int32ToByte(num) == BigEndian(num, 4)
Int64ToByte(num) == BigEndian(num, Uint64Len)

libApply(f, num) ==
    CASE f = "Uint8ToByte" -> Uint8ToByte(num)
      [] f = "Uint16ToByte" -> Uint16ToByte(num)
      [] f = "Uint32ToByte" -> Uint32ToByte(num)
      [] f = "Uint64ToByte" -> Uint64ToByte(num)
      [] f = "Int8ToByte" -> Int8ToByte(num)
      [] f = "Int16ToByte" -> Int16ToByte(num)
      [] f = "Int32ToByte" -> Int32ToByte(num)
      [] f = "Int64ToByte" -> Int64ToByte(num)

\* the values the functions are applied to: the ends of every type's range
\* and the values around every byte boundary, among the integers of the
\* model (32 bits)
MaxModelInt == 2147483647
LibSamples ==
    {0, 1, 127, 128, 255, 256, 32767, 32768, 65535, 65536, 16777216, MaxModelInt,
     -1, -127, -128, -129, -255, -256, -32768, -32769, -65536, -MaxModelInt - 1}

\* the samples that are values of the parameter type of f
libInputs(f) ==
    {num \in LibSamples :
        CASE f = "Uint8ToByte" -> num \in 0 .. 255
          [] f = "Uint16ToByte" -> num \in 0 .. 65535
          [] f \in {"Uint32ToByte", "Uint64ToByte"} -> num >= 0
          [] f = "Int8ToByte" -> num \in -128 .. 127
          [] f = "Int16ToByte" -> num \in -32768 .. 32767
          [] OTHER -> TRUE}

\* a call of f on a sample of its parameter type, not made yet
InitLib ==
    /\ InitEngine /\ app = NoApp
    /\ \E f \in LibFns : \E num \in libInputs(f) :
          st = [op |-> "lib", fn |-> f, num |-> num, done |-> FALSE, out |-> <<>>]

\* out := lib.<f>(num)
callLib(f) ==
    /\ st.op = "lib" /\ st.fn = f /\ ~st.done
    /\ st' = [st EXCEPT !.done = TRUE, !.out = libApply(f, st.num)]
    /\ UNCHANGED clock
    /\ UNCHANGED engineVars

\* ------------------------------------------------ draft with persistence
\* The draft of package cago that keeps a Store per key and mirrors the
\* table in a database: var app App, with New, Set, Put, Get, Exist, Remove,
\* Clear, Size and the sweeper runNode, and the database adapter they call.
AppKeys == {"a", "bb"}
IntTypes == {"int", "int8", "int16", "int32", "int64",
             "uint", "uint8", "uint16", "uint32", "uint64"}

appFrame == <<live, onceDone, data, index, stopClosed, doneClosed, jan, clock, pc,
              config, st, mu, job>>

\* the length of the slice lib.Int8ToByte ... lib.Uint64ToByte returns, as
\* Set and Put call them: int and uint go through the 64-bit functions
byteWidth(T) ==
    CASE T \in {"int8", "uint8"} -> 1
      [] T \in {"int16", "uint16"} -> 2
      [] T \in {"int32", "uint32"} -> 4
      [] OTHER -> 8

\* the payload Set and Put build in their type switch: []byte(v) for a
\* string (v is its byte sequence), lib.<Type>ToByte(v) for an integer
toBytes(val) == IF val.t = "string" THEN val.v ELSE BigEndian(val.v, byteWidth(val.t))

\* the conversion K(intValue) of Get: a wrap for the 8- and 16-bit types;
\* for the wider types it is the identity on the integers of the model
narrow(T, n) ==
    CASE T = "uint8" -> n % ByteBase
      [] T = "int8" -> ((n + ByteBase \div 2) % ByteBase) - ByteBase \div 2
      [] T = "uint16" -> n % (ByteBase * ByteBase)
      [] T = "int16" -> ((n + (ByteBase * ByteBase) \div 2) % (ByteBase * ByteBase))
                            - (ByteBase * ByteBase) \div 2
      [] OTHER -> n

\* ---- the database adapter (type database): each call fails while the
\* database does not answer
InsertOrUpdate(a, k, blob) ==
    [err |-> ~a.dbok, rows |-> IF a.dbok THEN mapSet(a.rows, k, blob) ELSE a.rows]
RemoveByKey(a, k) ==
    [err |-> ~a.dbok, rows |-> IF a.dbok THEN Without(a.rows, {k}) ELSE a.rows]
RemoveAll(a) ==
    [err |-> ~a.dbok, rows |-> IF a.dbok THEN Empty ELSE a.rows]
CreateTableIfNotExist(a) == [err |-> ~a.dbok]
FindALL(a) == [err |-> ~a.dbok, rows |-> IF a.dbok THEN a.rows ELSE Empty]

\* the database stops answering / answers again
dbBreaks ==
    /\ ~Panicked
    /\ app.dbok
    /\ app' = [app EXCEPT !.dbok = FALSE]
    /\ UNCHANGED last
    /\ UNCHANGED appFrame

dbRecovers ==
    /\ ~Panicked
    /\ ~app.dbok
    /\ app' = [app EXCEPT !.dbok = TRUE]
    /\ UNCHANGED last
    /\ UNCHANGED appFrame

\* mutant: rows whose blob is no Store are left out
loadRowsValid(d, rows) ==
    [k \in DOMAIN d \cup {x \in DOMAIN rows : Len(rows[x]) >= DataStartIndex} |->
        IF k \in DOMAIN rows /\ Len(rows[k]) >= DataStartIndex
        THEN ParseStore(rows[k]) ELSE d[k]]

\* New, the loop over the rows: app.data[val.Key] = store.ParseStore(val.Value)
loadRows(d, rows) ==
    [k \in DOMAIN d \cup DOMAIN rows |->
        IF k \in DOMAIN rows THEN ParseStore(rows[k]) ELSE d[k]]

\* New(config ...Config) error; path tells whether config.Path is set
AppNew(path) ==
    /\ ~Panicked
    /\ LET a0 == [AppZero(app.rows) EXCEPT !.dbok = app.dbok]     \* app = App{}
            a1 == [a0 EXCEPT !.made = TRUE, !.node = TRUE]         \* app.init()
            a2 == [a1 EXCEPT !.db = TRUE]                          \* app.InitializeDB()
        IN  IF ~path
            THEN /\ app' = a1
                 /\ last' = Ret("New", "nil", TRUE, NoVal)
            ELSE IF CreateTableIfNotExist(a2).err \/ FindALL(a2).err
                 THEN /\ app' = a2
                      /\ last' = Ret("New", "db", FALSE, NoVal)
                 ELSE /\ app' = [a2 EXCEPT !.data = loadRows(a2.data, FindALL(a2).rows)]
                      /\ last' = Ret("New", "nil", TRUE, NoVal)
    /\ UNCHANGED appFrame

\* the body of every case of the type switch of Set and Put: the Store is
\* written to the database (result dropped), put in the table, and written
\* to the database again, this time returning the error
storeAndMirror(op, k, s) ==
    IF ~app.made
    THEN /\ last' = PanicRet(op)             \* assignment to entry in nil map
         /\ UNCHANGED app
    ELSE LET w == InsertOrUpdate(app, k, s)
         IN  /\ app' = [app EXCEPT !.data = mapSet(@, k, s),
                                    !.rows = IF app.db THEN w.rows ELSE @]
             /\ last' = IF app.db /\ w.err THEN Ret(op, "db", FALSE, NoVal)
                                            ELSE Ret(op, "nil", TRUE, NoVal)

\* Set(key, value, maxAge ...uint64) error
AppSet(k, val, maxAge) ==
    /\ ~Panicked
    /\ IF k \in DOMAIN app.data
       THEN /\ last' = Ret("Set", "exists", FALSE, NoVal)
            /\ UNCHANGED app
       ELSE storeAndMirror("Set", k, NewStore(toBytes(val), maxAge, clock))
    /\ UNCHANGED appFrame

\* Put(key, value, maxAge ...uint64) error: with no maxAge given, the one of
\* the entry in the table is carried over
AppPut(k, val, maxAge) ==
    /\ ~Panicked
    /\ IF Len(maxAge) = 0 /\ k \in DOMAIN app.data /\ Len(app.data[k]) < DataStartIndex
       THEN /\ last' = PanicRet("Put")       \* old.MaxAge() of an empty Store
            /\ UNCHANGED app
       ELSE LET age == IF Len(maxAge) = 0 /\ k \in DOMAIN app.data
                       THEN <<MaxAge(app.data[k])>> ELSE maxAge
            IN  storeAndMirror("Put", k, NewStore(toBytes(val), age, clock))
    /\ UNCHANGED appFrame

\* Get[K](key) *K: nil (ok = FALSE) or the pointer to the decoded value
AppGet(k, T) ==
    /\ ~Panicked
    /\ IF k \notin DOMAIN app.data
       THEN last' = Ret("Get", "nil", FALSE, NoVal)
       ELSE LET s == app.data[k]
                r == StoreInt(s)
            IN  IF T = "string"
                THEN IF Len(s) < DataStartIndex
                     THEN last' = PanicRet("Get")            \* value.Text()
                     ELSE last' = Ret("Get", "nil", TRUE, Val(T, Bytes(s)))
                ELSE IF r.panic THEN last' = PanicRet("Get")
                     ELSE IF r.err THEN last' = Ret("Get", "nil", FALSE, NoVal)
                     ELSE last' = Ret("Get", "nil", TRUE, Val(T, narrow(T, r.n)))
    /\ UNCHANGED app
    /\ UNCHANGED appFrame

\* Exist(key) bool
AppExist(k) ==
    /\ ~Panicked
    /\ last' = Ret("Exist", "nil", k \in DOMAIN app.data, NoVal)
    /\ UNCHANGED app
    /\ UNCHANGED appFrame

\* what Remove does to app: delete(app.data, key), then app.db.RemoveByKey(key),
\* whose error is printed
removeAndMirror(a, k) ==
    [a EXCEPT !.data = Without(@, {k}),
              !.rows = IF a.db THEN RemoveByKey(a, k).rows ELSE @]

\* Remove(key) bool
AppRemove(k) ==
    /\ ~Panicked
    /\ app' = removeAndMirror(app, k)
    /\ last' = Ret("Remove", "nil", k \in DOMAIN app.data, NoVal)
    /\ UNCHANGED appFrame

\* Clear() error
AppClear ==
    /\ ~Panicked
    /\ app' = [app EXCEPT !.made = TRUE, !.data = Empty,
                          !.rows = IF app.db THEN RemoveAll(app).rows ELSE @]
    /\ last' = IF app.db /\ RemoveAll(app).err THEN Ret("Clear", "db", FALSE, NoVal)
                                                ELSE Ret("Clear", "nil", TRUE, NoVal)
    /\ UNCHANGED appFrame

RECURSIVE totalSizePayload(_, _)
RECURSIVE totalSize(_, _)
\* mutant: the payload length is added instead of the length of the Store
totalSizePayload(d, S) ==
    IF S = {} THEN 0
    ELSE LET key == CHOOSE x \in S : TRUE
         IN  Len(key) + (IF Len(d[key]) < DataStartIndex THEN 0 ELSE Length(d[key], FALSE))
               + totalSizePayload(d, S \ {key})

\* Size, the loop: totalSize += uint64(len(key)); totalSize += store.Length(true)
totalSize(d, S) ==
    IF S = {} THEN 0
    ELSE LET key == CHOOSE x \in S : TRUE
         IN  Len(key) + Length(d[key], TRUE) + totalSize(d, S \ {key})

\* Size() uint64
Size ==
    /\ ~Panicked
    /\ last' = Ret("Size", "nil", TRUE, Val("uint64", totalSize(app.data, DOMAIN app.data)))
    /\ UNCHANGED app
    /\ UNCHANGED appFrame

\* runNode's test of an entry: v.MaxAge() != 0 and
\* uint64(time.Now().UnixMilli()) - v.CreateAt() >= v.MaxAge(), the difference
\* being unsigned: it wraps to a huge value when CreateAt is ahead of now
overAge(s, now) ==
    /\ MaxAge(s) # 0
    /\ IF CreateAt(s) > now THEN TRUE ELSE now - CreateAt(s) >= MaxAge(s)

RECURSIVE sweepOut(_, _)
sweepOut(a, S) ==
    IF S = {} THEN a
    ELSE LET k == CHOOSE x \in S : TRUE IN sweepOut(removeAndMirror(a, k), S \ {k})

\* runNode, one round of its loop: Remove(k) for every entry over its age;
\* MaxAge() of an empty Store is an index out of range
runNode ==
    /\ ~Panicked
    /\ app.node
    /\ IF \E k \in DOMAIN app.data : Len(app.data[k]) < DataStartIndex
       THEN /\ last' = PanicRet("runNode")
            /\ UNCHANGED app
       ELSE /\ app' = sweepOut(app, {k \in DOMAIN app.data : overAge(app.data[k], clock)})
            /\ UNCHANGED last
    /\ UNCHANGED appFrame

\* ---------------------------------------------- Close, statement level
\* Close one statement at a time.  app is a package variable and every
\* statement of Close reads it again: what a caller finds there is what the
\* other callers left, not what its own nil check saw.  pc[t].at is the
\* statement t is about to run.
\* the runtime's panic when a nil *Cago is dereferenced (app.mu, app.done,
\* app.stop, app.data with app = nil)
NilDeref == Val("runtime error", 0)

at(t, where) == [pc EXCEPT ![t] = [Idle EXCEPT !.at = where]]

\* a statement of op that goes through app finds app = nil
nilPanic(t, op) ==
    /\ last' = Ret(op, "panic", FALSE, NilDeref)
    /\ pc' = at(t, "idle")

\* if app == nil { return }
closeCheck(t) ==
    /\ CanCall(t)
    /\ IF live
       THEN pc' = at(t, "closeLock") /\ UNCHANGED last
       ELSE last' = Ret("Close", "nil", TRUE, NoVal) /\ UNCHANGED pc
    /\ UNCHANGED <<live, onceDone, data, index, stopClosed, doneClosed, jan, clock>>
    /\ UNCHANGED <<config, st, mu, job, app>>

\* app.mu.Lock()
closeLock(t) ==
    /\ ~Panicked
    /\ pc[t].at = "closeLock"
    /\ IF ~live
       THEN nilPanic(t, "Close") /\ UNCHANGED mu
       ELSE /\ canLock(mu)
            /\ mu' = [mu EXCEPT !.w = t]
            /\ pc' = at(t, "closeStop")
            /\ UNCHANGED last
    /\ UNCHANGED <<live, onceDone, data, index, stopClosed, doneClosed, jan, clock>>
    /\ UNCHANGED <<config, st, job, app>>

\* select { case <-app.done: default: close(app.stop) }
\* close of a channel that is already closed panics
closeStop(t) ==
    /\ ~Panicked
    /\ pc[t].at = "closeStop"
    /\ IF ~live
       THEN nilPanic(t, "Close") /\ UNCHANGED stopClosed
       ELSE IF doneClosed
            THEN /\ pc' = at(t, "closeUnlock")
                 /\ UNCHANGED <<stopClosed, last>>
            ELSE IF stopClosed
                 THEN /\ last' = PanicRet("Close")
                      /\ pc' = at(t, "idle")
                      /\ UNCHANGED stopClosed
                 ELSE /\ stopClosed' = TRUE
                      /\ pc' = at(t, "closeUnlock")
                      /\ UNCHANGED last
    /\ UNCHANGED <<live, onceDone, data, index, doneClosed, jan, clock>>
    /\ UNCHANGED <<config, st, mu, job, app>>

\* mutant: Close goes on to wait for the janitor with the mutex still held
closeUnlockKeeps(t) ==
    /\ ~Panicked
    /\ pc[t].at = "closeUnlock"
    /\ IF ~live
       THEN nilPanic(t, "Close") /\ UNCHANGED mu
       ELSE /\ mu' = mu
            /\ pc' = at(t, "close")
            /\ UNCHANGED last
    /\ UNCHANGED <<live, onceDone, data, index, stopClosed, doneClosed, jan, clock>>
    /\ UNCHANGED <<config, st, job, app>>

\* app.mu.Unlock()
closeUnlock(t) ==
    /\ ~Panicked
    /\ pc[t].at = "closeUnlock"
    /\ IF ~live
       THEN nilPanic(t, "Close") /\ UNCHANGED mu
       ELSE /\ mu' = [mu EXCEPT !.w = NoHolder]
            /\ pc' = at(t, "close")
            /\ UNCHANGED last
    /\ UNCHANGED <<live, onceDone, data, index, stopClosed, doneClosed, jan, clock>>
    /\ UNCHANGED <<config, st, job, app>>

\* <-app.done   (blocks until the janitor of the instance app points to now
\* has closed done)
closeWait(t) ==
    /\ ~Panicked
    /\ pc[t].at = "close"
    /\ IF ~live
       THEN nilPanic(t, "Close")
       ELSE /\ doneClosed
            /\ pc' = at(t, "closeNil")
            /\ UNCHANGED last
    /\ UNCHANGED <<live, onceDone, data, index, stopClosed, doneClosed, jan, clock>>
    /\ UNCHANGED <<config, st, mu, job, app>>

\* app = nil
closeNil(t) ==
    /\ ~Panicked
    /\ pc[t].at = "closeNil"
    /\ live' = FALSE
    /\ data' = Empty
    /\ index' = Empty
    /\ config' = NoConfig
    /\ pc' = at(t, "closeOnce")
    /\ UNCHANGED <<onceDone, stopClosed, doneClosed, jan, clock, last, st, mu, job, app>>

\* do = sync.Once{} and the return
closeOnce(t) ==
    /\ ~Panicked
    /\ pc[t].at = "closeOnce"
    /\ onceDone' = FALSE
    /\ pc' = at(t, "idle")
    /\ last' = Ret("Close", "nil", TRUE, NoVal)
    /\ UNCHANGED <<live, data, index, stopClosed, doneClosed, jan, clock>>
    /\ UNCHANGED <<config, st, mu, job, app>>

\* ------------------------------------------- operations against Close
\* The statements of Set, Put, Get, Exist, Remove and Clear that go through
\* the package variable app after the nil check: app.mu.Lock() / RLock(),
\* app.data, app.index, app.mu.RUnlock(), and Clear's app.mu.Unlock().  (The
\* deferred Unlock of Set, Put and Remove took its receiver when the defer
\* statement ran.)
derefsApp(j) ==
    \/ j.at \in {"lock", "rlock", "data", "index", "read", "runlock"}
    \/ j.at = "unlock" /\ j.op = "Clear"

\* a call in progress goes through app after Close has set it to nil (the
\* lazy delete is a part of Get)
derefNil(t) ==
    /\ ~Panicked
    /\ ~live
    /\ derefsApp(job[t])
    /\ last' = Ret(IF job[t].op = "Lazy" THEN "Get" ELSE job[t].op, "panic", FALSE, NilDeref)
    /\ job' = [job EXCEPT ![t] = JobIdle]
    /\ UNCHANGED <<data, index, clock, mu>>
    /\ UNCHANGED coarseVars

\* -------------------------------------------------------- specification
\* One caller goroutine, the janitor and the clock; New with no Config.
Next ==
    \/ \E t \in Callers : New(t, 0)
    \/ \E t \in Callers : CloseBegin(t)
    \/ \E t \in Callers : CloseEnd(t)
    \/ Sweep
    \/ JanitorExit
    \/ Tick
    \/ \E t \in Callers, k \in Keys, v \in Values, ttl \in TTLs : Set(t, k, v, ttl)
    \/ \E t \in Callers, k \in Keys, v \in Values, ttl \in TTLs : Put(t, k, v, ttl)
    \/ \E t \in Callers, k \in Keys, T \in Types : Get(t, k, T)
    \/ \E t \in Callers : GetLazy(t)
    \/ \E t \in Callers, k \in Keys : Exist(t, k)
    \/ \E t \in Callers, k \in Keys : Remove(t, k)
    \/ \E t \in Callers : Clear(t)

Spec == Init /\ [][Next]_vars

\* Two caller goroutines running concurrently on one key, the janitor and
\* the clock.
NextConc ==
    \/ \E t \in Threads : New(t, 0)
    \/ \E t \in Threads : CloseBegin(t)
    \/ \E t \in Threads : CloseEnd(t)
    \/ Sweep
    \/ JanitorExit
    \/ Tick
    \/ \E t \in Threads, k \in ConcKeys, v \in Values, ttl \in TTLs : Set(t, k, v, ttl)
    \/ \E t \in Threads, k \in ConcKeys, v \in Values, ttl \in TTLs : Put(t, k, v, ttl)
    \/ \E t \in Threads, k \in ConcKeys, T \in Types : Get(t, k, T)
    \/ \E t \in Threads : GetLazy(t)
    \/ \E t \in Threads, k \in ConcKeys : Exist(t, k)
    \/ \E t \in Threads, k \in ConcKeys : Remove(t, k)
    \/ \E t \in Threads : Clear(t)

SpecConc == Init /\ [][NextConc]_vars

\* A caller that never reads (no Get, no Exist); the clock advances and the
\* janitor's ticker keeps firing.
NextNoRead ==
    \/ \E t \in Callers : New(t, 0)
    \/ \E t \in Callers : CloseBegin(t)
    \/ \E t \in Callers : CloseEnd(t)
    \/ Sweep
    \/ JanitorExit
    \/ Tick
    \/ \E t \in Callers, k \in Keys, v \in Values, ttl \in TTLs : Set(t, k, v, ttl)
    \/ \E t \in Callers, k \in Keys, v \in Values, ttl \in TTLs : Put(t, k, v, ttl)
    \/ \E t \in Callers, k \in Keys : Remove(t, k)
    \/ \E t \in Callers : Clear(t)

SpecJanitor == Init /\ [][NextNoRead]_vars /\ WF_vars(Tick) /\ WF_vars(Sweep)

\* One caller goroutine that passes New a Config of its choice and works on
\* one key.
NextLife ==
    \/ \E t \in Callers, cfg \in CleanIntervals : New(t, cfg)
    \/ \E t \in Callers : CloseBegin(t)
    \/ \E t \in Callers : CloseEnd(t)
    \/ Sweep
    \/ JanitorExit
    \/ Tick
    \/ \E t \in Callers, k \in ConcKeys, v \in Values, ttl \in TTLs : Set(t, k, v, ttl)
    \/ \E t \in Callers, k \in ConcKeys, v \in Values, ttl \in TTLs : Put(t, k, v, ttl)
    \/ \E t \in Callers, k \in ConcKeys, T \in Types : Get(t, k, T)
    \/ \E t \in Callers : GetLazy(t)
    \/ \E t \in Callers, k \in ConcKeys : Exist(t, k)
    \/ \E t \in Callers, k \in ConcKeys : Remove(t, k)
    \/ \E t \in Callers : Clear(t)

SpecLife == Init /\ [][NextLife]_vars

\* Two caller goroutines and the janitor, one lock operation and one map
\* operation at a time, on one key, with one value, stored for good or for
\* one millisecond.  One caller makes the calls that write (Set, Put, Remove,
\* Clear), the other the calls that read (Get, with its lazy delete, Exist).
Writers == {"t1"}
Readers == {"t2"}
LockValues == {Val("int", 1)}
LockTTLs == {0, DurPerMs}
NextLock ==
    \/ \E t \in Threads : job[t].at = "idle" /\ New(t, 0)
    \/ Tick
    \/ \E t \in Writers, k \in ConcKeys, v \in LockValues, ttl \in LockTTLs : Begin(t, "Set", k, NoType, v, ttl)
    \/ \E t \in Writers, k \in ConcKeys, v \in LockValues, ttl \in LockTTLs : Begin(t, "Put", k, NoType, v, ttl)
    \/ \E t \in Readers, k \in ConcKeys, T \in Types : Begin(t, "Get", k, T, NoVal, 0)
    \/ \E t \in Readers, k \in ConcKeys : Begin(t, "Exist", k, NoType, NoVal, 0)
    \/ \E t \in Writers, k \in ConcKeys : Begin(t, "Remove", k, NoType, NoVal, 0)
    \/ \E t \in Writers : Begin(t, "Clear", NoKey, NoType, NoVal, 0)
    \/ cleanupBegin
    \/ \E g \in Goroutines : muLock(g)
    \/ \E t \in Threads : muRLock(t)
    \/ \E g \in Goroutines : writeData(g)
    \/ \E g \in Goroutines : writeIndex(g)
    \/ \E g \in Goroutines : muUnlock(g)
    \/ \E t \in Threads : readEntry(t)
    \/ \E t \in Threads : muRUnlock(t)

SpecLock == Init /\ [][NextLock]_vars

\* Package store: NewStore, ParseStore, SetLength and Int applied to the
\* inputs, at any time of the clock.
NextStore ==
    \/ Tick
    \/ callNewStore
    \/ callParseStore
    \/ \E n \in SetLengths : callSetLength(n)
    \/ callInt

SpecStore == InitStore /\ [][NextStore]_vars

\* The draft with persistence: any call at any time on two keys, with a
\* database that may stop answering, the sweeper and the clock.  The
\* database file starts empty, or with a row that is no Store, or with a
\* Store made at the first millisecond and a Store of the epoch.
AppValues == {Val("string", <<120>>)}
AppMaxAges == {<<>>, <<1>>}
AppGetTypes == {"string", "int"}
InitRows == {Empty,
             "a" :> rawBuffer(DataStartIndex - 1, 1),
             "a" :> NewStore(<<120>>, <<1>>, 1) @@ "bb" :> rawBuffer(DataStartIndex + 1, 0)}

InitApp == InitEngine /\ st = NoStoreCall /\ app \in {AppZero(r) : r \in InitRows}

NextApp ==
    \/ \E path \in BOOLEAN : AppNew(path)
    \/ \E k \in AppKeys, v \in AppValues, a \in AppMaxAges : AppSet(k, v, a)
    \/ \E k \in AppKeys, v \in AppValues, a \in AppMaxAges : AppPut(k, v, a)
    \/ \E k \in AppKeys, T \in AppGetTypes : AppGet(k, T)
    \/ \E k \in AppKeys : AppExist(k)
    \/ \E k \in AppKeys : AppRemove(k)
    \/ AppClear
    \/ Size
    \/ runNode
    \/ dbBreaks
    \/ dbRecovers
    \/ Tick

SpecApp == InitApp /\ [][NextApp]_vars

\* The draft without a database: values of every integer type and strings
\* stored under one key and read back as any type.
TypedKeys == {"a"}
TypedValues ==
    {Val(T, v) : T \in IntTypes, v \in {0, 1, 127}}
    \cup {Val("int8", -1), Val("int16", -2), Val("uint8", 255), Val("uint16", 256)}
    \cup {Val("string", <<120>>), Val("string", <<0, 0, 0, 0, 0, 0, 1, 44>>)}

NextTyped ==
    \/ AppNew(FALSE)
    \/ \E k \in TypedKeys, v \in TypedValues : AppSet(k, v, <<>>)
    \/ \E k \in TypedKeys, v \in TypedValues : AppPut(k, v, <<>>)
    \/ \E k \in TypedKeys, T \in IntTypes \cup {"string"} : AppGet(k, T)
    \/ \E k \in TypedKeys : AppRemove(k)
    \/ Tick

SpecTyped == Init /\ [][NextTyped]_vars

\* Two goroutines that call New and Close at any time, Close one statement
\* at a time, and the janitor one lock operation at a time.  jan and
\* job[Janitor] follow the janitor started last; New is taken up when the
\* mutex is free and that janitor is between two sweeps.
NextClose ==
    \/ \E t \in Threads : mu = MuFree /\ job[Janitor].at = "idle" /\ New(t, 0)
    \/ \E t \in Threads : closeCheck(t)
    \/ \E t \in Threads : closeLock(t)
    \/ \E t \in Threads : closeStop(t)
    \/ \E t \in Threads : closeUnlock(t)
    \/ \E t \in Threads : closeWait(t)
    \/ \E t \in Threads : closeNil(t)
    \/ \E t \in Threads : closeOnce(t)
    \/ cleanupBegin
    \/ muLock(Janitor)
    \/ writeData(Janitor)
    \/ writeIndex(Janitor)
    \/ muUnlock(Janitor)
    \/ job[Janitor].at = "idle" /\ JanitorExit
    \/ Tick

SpecClose == Init /\ [][NextClose]_vars

\* One goroutine that calls New, Put and Close, Close one statement at a
\* time, and the janitor one lock operation at a time.  Every goroutine that
\* can take a step is scheduled in the end, a goroutine waiting in mu.Lock()
\* gets the mutex in the end (sync.RWMutex does not starve a writer), and
\* the janitor's select, which picks at random among the channels that are
\* ready, picks the closed stop channel in the end.
NextShutdown ==
    \/ \E t \in Callers : mu = MuFree /\ job[Janitor].at = "idle" /\ New(t, 0)
    \/ \E t \in Callers, k \in ConcKeys, v \in LockValues, ttl \in LockTTLs :
          mu = MuFree /\ Put(t, k, v, ttl)
    \/ \E t \in Callers : closeCheck(t)
    \/ \E t \in Callers : closeLock(t)
    \/ \E t \in Callers : closeStop(t)
    \/ \E t \in Callers : closeUnlock(t)
    \/ \E t \in Callers : closeWait(t)
    \/ \E t \in Callers : closeNil(t)
    \/ \E t \in Callers : closeOnce(t)
    \/ cleanupBegin
    \/ muLock(Janitor)
    \/ writeData(Janitor)
    \/ writeIndex(Janitor)
    \/ muUnlock(Janitor)
    \/ job[Janitor].at = "idle" /\ JanitorExit
    \/ Tick

SpecShutdown ==
    /\ Init /\ [][NextShutdown]_vars
    /\ \A t \in Callers :
          /\ SF_vars(closeLock(t)) /\ WF_vars(closeStop(t)) /\ WF_vars(closeUnlock(t))
          /\ WF_vars(closeWait(t)) /\ WF_vars(closeNil(t)) /\ WF_vars(closeOnce(t))
    /\ WF_vars(muLock(Janitor)) /\ WF_vars(writeData(Janitor))
    /\ WF_vars(writeIndex(Janitor)) /\ WF_vars(muUnlock(Janitor))
    /\ SF_vars(job[Janitor].at = "idle" /\ JanitorExit)

\* Two goroutines that race to Set the one key while it is absent, each with
\* a value of its own and a ttl <= 0, one lock operation and one map
\* operation at a time.  Between two races, with no call in progress, the
\* key is removed again.
SetValue == "t1" :> Val("int", 0) @@ "t2" :> Val("int", 1)
NextSetRace ==
    \/ \E t \in Threads :
          mu = MuFree /\ (\A g \in Goroutines : job[g].at = "idle") /\ New(t, 0)
    \/ \E t \in Threads, k \in ConcKeys, ttl \in {-1, 0} :
          k \notin DOMAIN data /\ Begin(t, "Set", k, NoType, SetValue[t], ttl)
    \/ \E t \in Threads : muLock(t)
    \/ \E t \in Threads : writeData(t)
    \/ \E t \in Threads : writeIndex(t)
    \/ \E t \in Threads : muUnlock(t)
    \/ \E t \in Threads, k \in ConcKeys :
          mu = MuFree /\ (\A g \in Goroutines : job[g].at = "idle") /\ Remove(t, k)
    \/ Tick

SpecSetRace == Init /\ [][NextSetRace]_vars

\* One goroutine that calls New once and Close, Close one statement at a
\* time, and one goroutine that calls Set, Put, Get, Exist, Remove and Clear,
\* one lock operation and one map operation at a time, with the janitor and
\* the clock.
NextRace ==
    \/ \E t \in Callers : jan = "none" /\ New(t, 0)
    \/ \E t \in Callers : closeCheck(t)
    \/ \E t \in Callers : closeLock(t)
    \/ \E t \in Callers : closeStop(t)
    \/ \E t \in Callers : closeUnlock(t)
    \/ \E t \in Callers : closeWait(t)
    \/ \E t \in Callers : closeNil(t)
    \/ \E t \in Callers : closeOnce(t)
    \/ \E t \in Threads \ Callers, k \in ConcKeys, v \in LockValues, ttl \in LockTTLs :
          ~live /\ job[t].at = "idle" /\ Set(t, k, v, ttl)
    \/ \E t \in Threads \ Callers, k \in ConcKeys, T \in Types :
          ~live /\ job[t].at = "idle" /\ Get(t, k, T)
    \/ \E t \in Threads \ Callers, k \in ConcKeys, v \in LockValues, ttl \in LockTTLs : Begin(t, "Set", k, NoType, v, ttl)
    \/ \E t \in Threads \ Callers, k \in ConcKeys, v \in LockValues, ttl \in LockTTLs : Begin(t, "Put", k, NoType, v, ttl)
    \/ \E t \in Threads \ Callers, k \in ConcKeys, T \in Types : Begin(t, "Get", k, T, NoVal, 0)
    \/ \E t \in Threads \ Callers, k \in ConcKeys : Begin(t, "Exist", k, NoType, NoVal, 0)
    \/ \E t \in Threads \ Callers, k \in ConcKeys : Begin(t, "Remove", k, NoType, NoVal, 0)
    \/ \E t \in Threads \ Callers : Begin(t, "Clear", NoKey, NoType, NoVal, 0)
    \/ \E t \in Threads \ Callers : ~Panicked /\ live /\ muLock(t)
    \/ \E t \in Threads \ Callers : ~Panicked /\ live /\ muRLock(t)
    \/ \E t \in Threads \ Callers : ~Panicked /\ live /\ writeData(t)
    \/ \E t \in Threads \ Callers : ~Panicked /\ live /\ writeIndex(t)
    \/ \E t \in Threads \ Callers : ~Panicked /\ ~derefsApp(job[t]) /\ muUnlock(t)
    \/ \E t \in Threads \ Callers : ~Panicked /\ live /\ derefsApp(job[t]) /\ muUnlock(t)
    \/ \E t \in Threads \ Callers : ~Panicked /\ live /\ readEntry(t)
    \/ \E t \in Threads \ Callers : ~Panicked /\ live /\ muRUnlock(t)
    \/ \E t \in Threads \ Callers : derefNil(t)
    \/ canLock(mu) /\ Sweep
    \/ JanitorExit
    \/ Tick

SpecRace == Init /\ [][NextRace]_vars

\* Package lib: each integer conversion applied to each sample of its
\* parameter type.
SpecLib == InitLib /\ [][\E f \in LibFns : callLib(f)]_vars

TypeOK ==
    /\ live \in BOOLEAN /\ onceDone \in BOOLEAN
    /\ DOMAIN data \subseteq Keys
    /\ \A k \in DOMAIN data : data[k].Key = k /\ data[k].Value \in Values
    /\ \A exp \in DOMAIN index : exp > 0 /\ Len(index[exp]) \in 1 .. MaxIndex
    /\ clock \in 1 .. MaxTime

\* ================================================================ claims
\* Vocabulary of the claims: an entry is expired at a time when it has an
\* expiry and that expiry is not in the future; a key is live when it is in
\* the table with an entry that is not expired now.
ExpiredAt(e, now) == e.ExpiresAt # 0 /\ e.ExpiresAt <= now
InTableLive(k) == k \in DOMAIN data /\ ~ExpiredAt(data[k], clock)
NotFound(T) == Ret("Get", "nil", FALSE, Zero(T))

\* the app exists and the step may be a completed call of op (a call records
\* its name), or a Get moving on to its lazy delete
Returns(op) == live /\ last'.op = op
GetStep == live /\ (last'.op = "Get" \/ pc' # pc)

\* a step that stores an entry for k, or replaces k's entry by another one
Written(k) == k \in DOMAIN data' /\ (k \in DOMAIN data => data'[k] # data[k])
\* the step is a call of Set or Put on k
WriteCall(k) == \E t \in Threads, v \in Values, ttl \in TTLs : Set(t, k, v, ttl) \/ Put(t, k, v, ttl)

\* C1: Set(k, v, ttl) returns ErrKeyExists exactly when k is in the table
\* with an entry that is not expired at the time of the call; otherwise (k
\* absent, or present but expired and not yet evicted) it returns nil and
\* stores a new entry for k holding v.
C1_SetContract ==
    [][Returns("Set") => \A t \in Threads, k \in Keys, v \in Values, ttl \in TTLs :
          Set(t, k, v, ttl) =>
              IF InTableLive(k)
              THEN last'.op = "Set" /\ last'.err = "ErrKeyExists"
              ELSE /\ last'.op = "Set" /\ last'.err = "nil"
                   /\ k \in DOMAIN data'
                   /\ data'[k].Value = v
                   /\ data'[k].CreatedAt = clock]_vars

\* C1 witness: a Set has just been refused while a key with a future expiry
\* is in the table.
C1_Witness ==
    /\ last.op = "Set" /\ last.err = "ErrKeyExists"
    /\ \E k \in DOMAIN data : data[k].ExpiresAt > clock

\* C2: Put(k, v, ttl) succeeds whatever the prior state of k and stores v;
\* the value of a key's entry changes only by a Set or Put of that key; and
\* a Get of the matching type on a key whose entry is not expired returns the
\* stored value and true.  So after put(k, v1); put(k, v2), with no later
\* write and no expiry, Get returns (v2, true).
C2_PutThenGet ==
    [][/\ Returns("Put") => \A t \in Threads, k \in Keys, v \in Values, ttl \in TTLs :
              Put(t, k, v, ttl) =>
                  /\ last'.op = "Put" /\ last'.err = "nil"
                  /\ k \in DOMAIN data' /\ data'[k].Value = v
       /\ \A k \in Keys :
              (k \in DOMAIN data /\ k \in DOMAIN data' /\ data'[k].Value # data[k].Value)
                  => WriteCall(k)
       /\ GetStep => \A t \in Threads, k \in DOMAIN data :
              (~ExpiredAt(data[k], clock) /\ Get(t, k, data[k].Value.t)) =>
                  last' = Ret("Get", "nil", TRUE, data[k].Value)]_vars

\* C2 witness: the last call was a Put of a key that had been put before at
\* the same expiry (the index lists the key twice) and the table holds it.
C2_Witness ==
    /\ last.op = "Put"
    /\ \E k \in DOMAIN data : \E exp \in DOMAIN index :
          index[exp] = <<k, k>> /\ data[k].ExpiresAt = exp /\ data[k].Value = Val("int", 1)

\* C3: Get[T](k) returns (zero, false) when k is absent or its entry is
\* expired at the time of the call (after the lazy delete), and (v, true)
\* when the entry is live and of type T, v being the value the table holds
\* for k, which only Set and Put store.
C3_GetContract ==
    [][/\ GetStep => \A t \in Threads, k \in Keys, T \in Types :
              Get(t, k, T) =>
                  /\ k \notin DOMAIN data => last' = NotFound(T)
                  /\ (k \in DOMAIN data /\ ExpiredAt(data[k], clock)) =>
                        pc'[t] = [at |-> "lazy", key |-> k, T |-> T]
                  /\ (InTableLive(k) /\ data[k].Value.t = T) =>
                        last' = Ret("Get", "nil", TRUE, data[k].Value)
       /\ GetStep => \A t \in Threads :
              GetLazy(t) => last' = NotFound(pc[t].T)
       /\ \A k \in Keys : Written(k) => WriteCall(k)]_vars

\* C3 witness: a Get has just returned (1, true).
C3_Witness == last = Ret("Get", "nil", TRUE, Val("int", 1))

\* C4, as claimed: for every ttl > 0, after a successful Set(k, v, ttl) at
\* time t0 Exist(k) is true immediately, the entry's expiry is no later than
\* t0 + ttl, and at every time at or after the expiry Exist(k) is false and
\* Get(k) reports not-found, swept or not, until k is written again.
ExpiryHonoured ==
    /\ Returns("Exist") => \A t \in Threads, k \in Keys :
          ((k \in DOMAIN data => ExpiredAt(data[k], clock)) /\ Exist(t, k)) => ~last'.ok
    /\ GetStep => \A t \in Threads, k \in Keys, T \in Types :
          /\ (k \in DOMAIN data /\ ExpiredAt(data[k], clock) /\ Get(t, k, T)) =>
                 pc'[t].at = "lazy" /\ last' = last
          /\ (k \notin DOMAIN data /\ Get(t, k, T)) => ~last'.ok
    /\ GetStep => \A t \in Threads : GetLazy(t) => ~last'.ok
    /\ \A k \in Keys : Written(k) => WriteCall(k)

SetExpiry(minTtl) ==
    (Returns("Set") /\ last'.err = "nil") =>
      \A t \in Threads, k \in Keys, v \in Values, ttl \in TTLs :
        (ttl > 0 /\ Set(t, k, v, ttl)) =>
            /\ data'[k].ExpiresAt > 0
            /\ data'[k].ExpiresAt * DurPerMs <= clock * DurPerMs + ttl
            /\ ttl >= minTtl => existResult(data', k, clock')

C4_Original == [][SetExpiry(1) /\ ExpiryHonoured]_vars

\* C4, amended: the same for every ttl of at least one millisecond; a
\* positive ttl below one millisecond gives an entry that is expired at once.
C4_SetThenExpire == [][SetExpiry(DurPerMs) /\ ExpiryHonoured]_vars

\* C4 witness: a Set with a ttl has just stored a key that exists now and
\* expires at the next millisecond.
C4_Witness ==
    /\ last = Ret("Set", "nil", TRUE, NoVal)
    /\ \E k \in DOMAIN data :
          /\ data[k].CreatedAt = clock /\ data[k].ExpiresAt = clock + 1
          /\ existResult(data, k, clock)

\* C5: a key stored with a ttl and never read afterwards is eventually
\* deleted by the janitor alone: while the cache stays open and the ticker
\* keeps firing, an entry whose expiry the clock reaches leaves the table
\* (or has been replaced by then).
C5_JanitorReclaims ==
    \A k \in Keys, x \in 1 .. MaxTime :
        (k \in DOMAIN data /\ data[k].ExpiresAt = x)
            ~> (\/ k \notin DOMAIN data
                \/ data[k].ExpiresAt # x
                \/ jan # "run"
                \/ Panicked)

\* C5 witness: the most recent call stored a key with a ttl, nothing was
\* called since, and the table is empty again: a sweep has removed the key.
C5_Witness ==
    /\ last.op = "Put" /\ live /\ jan = "run"
    /\ DOMAIN data = {} /\ DOMAIN index = {}
    /\ clock > 1

\* C6, as claimed: an entry stored by Set or Put with ttl <= 0 gets
\* expiresAt = 0, and such an entry leaves the table or is replaced only by
\* an explicit Remove of its key, a Clear, a Put of its key or a Close:
\* never by a Get's lazy delete and never by a sweep.
C6_NeverExpires ==
    [][/\ Returns("Set") => \A t \in Threads, k \in Keys, v \in Values, ttl \in TTLs :
              (ttl <= 0 /\ last'.err = "nil" /\ Set(t, k, v, ttl)) => data'[k].ExpiresAt = 0
       /\ Returns("Put") => \A t \in Threads, k \in Keys, v \in Values, ttl \in TTLs :
              (ttl <= 0 /\ Put(t, k, v, ttl)) => data'[k].ExpiresAt = 0
       /\ \A k \in DOMAIN data :
              (data[k].ExpiresAt = 0 /\ (k \notin DOMAIN data' \/ data'[k] # data[k])) =>
                  \E t \in Threads :
                      \/ Remove(t, k)
                      \/ Clear(t)
                      \/ CloseEnd(t)
                      \/ \E v \in Values, ttl \in TTLs : Put(t, k, v, ttl)]_vars

\* C7: Exist(k) returns true iff k is in the table and its entry is not
\* expired at the time of the call, and it changes neither the table nor the
\* index (an expired entry it finds stays).
C7_ExistPure ==
    [][Returns("Exist") => \A t \in Threads, k \in Keys :
          Exist(t, k) =>
              /\ last'.ok <=> InTableLive(k)
              /\ last'.err = "nil"
              /\ data' = data /\ index' = index]_vars

\* C7 witness: Exist has just returned false although every key is in the
\* table: the entry it looked at is expired and still there.
C7_Witness ==
    /\ last = Ret("Exist", "nil", FALSE, NoVal)
    /\ DOMAIN data = Keys

\* C8: Remove(k) returns true exactly when k was in the table, k is absent
\* afterwards, and an absent key stays absent (Get and Exist report
\* not-found) until a Set or Put writes it.
C8_Remove ==
    [][/\ Returns("Remove") => \A t \in Threads, k \in Keys :
              Remove(t, k) =>
                  /\ last'.ok <=> k \in DOMAIN data
                  /\ last'.err = "nil"
                  /\ k \notin DOMAIN data'
       /\ \A k \in Keys : (k \notin DOMAIN data /\ k \in DOMAIN data') => WriteCall(k)
       /\ Returns("Exist") => \A t \in Threads, k \in Keys :
              (k \notin DOMAIN data /\ Exist(t, k)) => ~last'.ok
       /\ GetStep => \A t \in Threads, k \in Keys, T \in Types :
              (k \notin DOMAIN data /\ Get(t, k, T)) => last' = NotFound(T)]_vars

\* C8 witness: Remove has just returned true while another key stays stored.
C8_Witness ==
    /\ last = Ret("Remove", "nil", TRUE, NoVal)
    /\ DOMAIN data # {} /\ DOMAIN data # Keys

\* C9: after Clear the table and the index are both empty: Exist is false
\* for every key, and a sweep at any later time finds nothing to do.
C9_Clear ==
    [][Returns("Clear") => \A t \in Threads :
          Clear(t) =>
              /\ DOMAIN data' = {} /\ DOMAIN index' = {}
              /\ \A k \in Keys : ~existResult(data', k, clock')
              /\ \A now \in 1 .. MaxTime + MaxTtl :
                    /\ cleanupData(data', index', now) = data'
                    /\ cleanupIndex(index', now) = index']_vars

\* C9 witness: Clear has just returned and left nothing behind.
C9_Witness ==
    /\ last = Ret("Clear", "nil", TRUE, NoVal)
    /\ live /\ DOMAIN data = {} /\ DOMAIN index = {}

\* C10: Get[T](k) on a live entry whose stored value is not of type T
\* returns (zero, false) and does not panic.
C10_TypeMismatch ==
    [][GetStep => \A t \in Threads, k \in Keys, T \in Types :
          (InTableLive(k) /\ data[k].Value.t # T /\ Get(t, k, T)) =>
              last' = NotFound(T) /\ pc' = pc]_vars

\* C10 witness: a Get[string] has just reported not-found although every key
\* is in the table with a live int entry.
C10_Witness ==
    /\ last = NotFound("string")
    /\ DOMAIN data = Keys
    /\ \A k \in Keys : InTableLive(k) /\ data[k].Value.t = "int"

\* C11: Set, Put, Get, Exist, Remove and Clear called while no cache
\* instance exists (before the first New, or after Close and before the next
\* New) panic: the call does not return normally and changes nothing.
C11_PanicsWithoutInstance ==
    [][(~live /\ last' # last) =>
          \A t \in Threads, k \in Keys :
              (\/ \E v \in Values, ttl \in TTLs : Set(t, k, v, ttl) \/ Put(t, k, v, ttl)
               \/ \E T \in Types : Get(t, k, T)
               \/ Exist(t, k)
               \/ Remove(t, k)
               \/ Clear(t))
                  => /\ last'.err = "panic"
                     /\ ~live'
                     /\ data' = data /\ index' = index]_vars

\* C11 witness: a Get has panicked on a cache that had been opened and
\* closed again.
C11_Witness ==
    /\ last = Ret("Get", "panic", FALSE, NoVal)
    /\ ~live /\ stopClosed /\ doneClosed /\ jan = "exited"

\* C12: while an instance exists, New with any Config returns nil and
\* replaces neither the table, the index nor the configuration, and starts
\* no janitor (the janitor and its channels are the ones there were).
C12_NewIdempotent ==
    [][(live /\ last'.op = "New") =>
          \A t \in Threads, cfg \in CleanIntervals :
              New(t, cfg) =>
                  /\ last' = Ret("New", "nil", TRUE, NoVal)
                  /\ live'
                  /\ data' = data /\ index' = index /\ config' = config
                  /\ jan' = jan /\ stopClosed' = stopClosed /\ doneClosed' = doneClosed
                  /\ \A k \in Keys : existResult(data', k, clock') = existResult(data, k, clock)]_vars

\* C12 witness: New has just returned on an instance created with the
\* default interval whose table holds a key with an expiry.
C12_Witness ==
    /\ last = Ret("New", "nil", TRUE, NoVal)
    /\ live /\ jan = "run" /\ config = 1 * Second
    /\ DOMAIN data # {} /\ DOMAIN index # {}

C14_NewAfterClose ==
    [][(~live /\ jan = "exited" /\ last'.op = "New") =>
          \A t \in Threads, cfg \in CleanIntervals :
              New(t, cfg) =>
                  /\ last' = Ret("New", "nil", TRUE, NoVal)
                  /\ live'
                  /\ DOMAIN data' = {} /\ DOMAIN index' = {}
                  /\ jan' = "run" /\ ~stopClosed' /\ ~doneClosed'
                  /\ config' = cleanIntervalOf(cfg)
                  /\ \A k \in Keys : ~existResult(data', k, clock')
                                     /\ ~setConflict(data', k, clock')]_vars

\* C14 witness: New has just created an instance, with nothing stored and
\* a running janitor, while the other caller is still inside a Close it
\* began on the instance before: that instance's stop and done were closed,
\* this one's are open.
C14_Witness ==
    /\ last = Ret("New", "nil", TRUE, NoVal)
    /\ live /\ jan = "run" /\ ~stopClosed /\ ~doneClosed
    /\ DOMAIN data = {} /\ DOMAIN index = {}
    /\ \E t \in Threads : pc[t].at = "close"

\* C15: every change of the entry table or of the expiry index (by Set, Put,
\* Remove, Clear, a Get's lazy delete, the janitor's sweep) is made by the
\* goroutine that holds the mutex exclusively, with no reader inside; every
\* table read of Get and Exist is made holding the read lock with no writer
\* inside, so what a reader gets is the table's whole entry for the key (or
\* its absence), never a mixture of two writes.
C15_LockDiscipline ==
    [][/\ (data' # data \/ index' # index) =>
              /\ mu.w # NoHolder /\ mu.r = {} /\ mu' = mu
              /\ job[mu.w].at \in {"data", "index"}
              /\ job'[mu.w] # job[mu.w]
       /\ (job' # job) => \A t \in Threads :
              readEntry(t) =>
                  /\ t \in mu.r /\ mu.w = NoHolder
                  /\ job'[t].ok = (job[t].key \in DOMAIN data)
                  /\ job'[t].ok => job'[t].e = data[job[t].key]
       /\ mu.w # NoHolder => mu.r = {}]_vars

\* C15 witness: one caller has read the key's entry under the read lock and
\* still holds it, while the other caller, with a Put of the same key, waits
\* for the mutex.
C15_Witness ==
    /\ job["t2"].at = "runlock" /\ job["t2"].op = "Get" /\ job["t2"].ok
    /\ job["t2"].e = data[job["t2"].key]
    /\ mu = [w |-> NoHolder, r |-> {"t2"}]
    /\ job["t1"].at = "lock" /\ job["t1"].op = "Put" /\ job["t1"].key = job["t2"].key

\* C16: Store round trip: for every payload p and every maxAge a,
\* ParseStore(NewStore(p, a)) is a Store whose Bytes() is p and whose
\* MaxAge() is a (0 when no maxAge was given).
C16_StoreRoundTrip ==
    (st.op = "ParseStore" /\ st.made /\ ~st.set) =>
        /\ st.b = NewStore(st.p, st.a, st.now)
        /\ Len(st.s) >= DataStartIndex
        /\ Bytes(st.s) = st.p
        /\ MaxAge(st.s) = (IF Len(st.a) > 0 THEN st.a[1] ELSE 0)

\* C16 witness: a 9-byte payload stored with maxAge 65537 has gone through
\* NewStore and ParseStore.
C16_Witness ==
    /\ st.op = "ParseStore" /\ st.made /\ ~st.set
    /\ Len(st.p) = 9 /\ st.a = <<65537>>
    /\ Bytes(st.s) = st.p

\* C17: ParseStore(b) is the empty Store for every b shorter than 32 bytes,
\* and for every b of 32 bytes or more it is a non-empty Store over exactly
\* the bytes of b; it has no way to panic.
C17_ParseStore ==
    (st.op = "ParseStore") =>
        /\ Len(st.b) < 32 => Len(st.s) = 0
        /\ Len(st.b) >= 32 => (Len(st.s) > 0 /\ st.s = st.b)
        /\ ~st.res.panic

\* C17 witness: a raw buffer of 31 bytes has been parsed into the empty
\* Store.
C17_Witness ==
    /\ st.op = "ParseStore" /\ ~st.made
    /\ Len(st.b) = 31 /\ st.s = <<>>

\* C18: NewStore(p, a) is a buffer of exactly 32 + len(p) bytes whose
\* header holds createdAt = now, updatedAt = 0, maxAge = a (0 when omitted)
\* and length = len(p), so Length() = len(p) = Length(true) - 32, and whose
\* bytes from 32 on are p.
C18_NewStore ==
    [][callNewStore =>
          /\ Len(st'.s) = 32 + Len(st.p)
          /\ CreateAt(st'.s) = clock
          /\ UpdateAt(st'.s) = 0
          /\ MaxAge(st'.s) = (IF Len(st.a) > 0 THEN st.a[1] ELSE 0)
          /\ Length(st'.s, FALSE) = Len(st.p)
          /\ Length(st'.s, FALSE) = Length(st'.s, TRUE) - 32
          /\ \A i \in 1 .. Len(st.p) : st'.s[32 + i] = st.p[i]]_vars

\* C18 witness: NewStore has built the Store of a 3-byte payload with no
\* maxAge at the second millisecond.
C18_Witness ==
    /\ st.op = "NewStore" /\ st.p = <<1, 2, 3>> /\ st.a = <<>>
    /\ st.now = 2 /\ Len(st.s) = 35

\* C19, as claimed: on a Store of 32 bytes or more, Int() returns an error
\* without panicking when the payload is shorter than 8 bytes, whatever the
\* length field says, and otherwise the big-endian value of the first 8
\* payload bytes.
C19_IntContract ==
    (st.op = "Int" /\ Len(st.s) >= 32) =>
        IF Len(st.s) - 32 < 8
        THEN st.res.err /\ ~st.res.panic
        ELSE /\ ~st.res.err /\ ~st.res.panic
             /\ st.res.n = Uint64(SubSeq(st.s, 33, 40))

\* C20, as claimed: a Put on a key that has an entry, made without a TTL
\* (the zero Duration), keeps the prior entry's TTL: an entry that was to
\* expire is not replaced by one that never expires.
C20_PutKeepsTtl ==
    [][Returns("Put") => \A t \in Threads, k \in Keys, v \in Values :
          (k \in DOMAIN data /\ data[k].ExpiresAt > 0 /\ Put(t, k, v, 0)) =>
              data'[k].ExpiresAt > 0]_vars

\* C25: a Set that returns ErrKeyExists changes nothing: the entry of k
\* (value, expiresAt, createdAt, updatedAt), every other entry and the expiry
\* index are after the call what they were before it.
C25_RefusedSetFrame ==
    [][(Returns("Set") /\ last'.err = "ErrKeyExists") =>
          \A t \in Threads, k \in Keys, v \in Values, ttl \in TTLs :
              Set(t, k, v, ttl) =>
                  /\ k \in DOMAIN data /\ data'[k] = data[k]
                  /\ DOMAIN data' = DOMAIN data
                  /\ \A j \in DOMAIN data : data'[j] = data[j]
                  /\ index' = index]_vars

\* C25 witness: a Set has just been refused at a time later than the
\* creation of the entry it met, with another key stored and listed in
\* the index; the entry met still carries its first stamps.
C25_Witness ==
    /\ last = Ret("Set", "ErrKeyExists", FALSE, NoVal)
    /\ DOMAIN data = Keys /\ DOMAIN index # {}
    /\ \E k \in DOMAIN data :
          /\ data[k].ExpiresAt = 0
          /\ data[k].CreatedAt < clock /\ data[k].UpdatedAt = data[k].CreatedAt

\* C26, as claimed: in every reachable state, every key listed in a bucket
\* index[ts] is in the entry table and its entry's expiresAt is ts.
C26_IndexExact ==
    \A ts \in DOMAIN index : \A k \in Range(index[ts]) :
        k \in DOMAIN data /\ data[k].ExpiresAt = ts

\* C26, amended: in every reachable state (between calls), every key of the
\* entry table whose entry has an expiry ts > 0 is listed in index[ts]; a
\* listing may outlive the entry it was made for.
C26_IndexCovers ==
    \A k \in DOMAIN data :
        data[k].ExpiresAt > 0 =>
            /\ data[k].ExpiresAt \in DOMAIN index
            /\ k \in Range(index[data[k].ExpiresAt])

\* C26 witness: both keys are stored with the same expiry and listed in its
\* bucket, at a time later than the start.
C26_Witness ==
    /\ live /\ DOMAIN data = Keys /\ clock > 1
    /\ \E ts \in DOMAIN index :
          /\ Range(index[ts]) = Keys
          /\ \A k \in Keys : data[k].ExpiresAt = ts

\* C27: a janitor sweep deletes a key only if the key's current entry is
\* expired at the sweep's time; a key named by a stale bucket whose entry has
\* since been replaced by one with a later expiry or with none is kept, with
\* its entry as it was.
C27_SweepRevalidates ==
    [][writeData(Janitor) =>
          LET nowMs == job[Janitor].now IN
          /\ \A k \in DOMAIN data :
                k \notin DOMAIN data' => ExpiredAt(data[k], nowMs)
          /\ \A k \in DOMAIN data :
                ~ExpiredAt(data[k], nowMs) => (k \in DOMAIN data' /\ data'[k] = data[k])]_vars

\* C27 witness: the janitor is in the middle of a sweep, done with the table
\* and about to drop the buckets: a due bucket names a key whose entry has
\* another expiry and is not expired, and the key is still in the table.
C27_Witness ==
    /\ job[Janitor].op = "cleanup" /\ job[Janitor].at = "index"
    /\ \E ts \in DOMAIN index :
          /\ ts <= job[Janitor].now
          /\ \E k \in Range(index[ts]) :
                /\ k \in DOMAIN data
                /\ data[k].ExpiresAt # ts
                /\ ~ExpiredAt(data[k], job[Janitor].now)

\* C28, as claimed: a Put on a key that has an entry changes the entry's
\* value, updatedAt and expiresAt and leaves its createdAt at the time the
\* key was first created.
C28_PutKeepsCreatedAt ==
    [][Returns("Put") => \A t \in Threads, k \in Keys, v \in Values, ttl \in TTLs :
          (k \in DOMAIN data /\ Put(t, k, v, ttl)) =>
              /\ data'[k].Value = v
              /\ data'[k].UpdatedAt = clock
              /\ data'[k].ExpiresAt = expOf(clock, ttl)
              /\ data'[k].CreatedAt = data[k].CreatedAt]_vars

\* C29: a Get that finds k's entry expired deletes k from the entry table
\* before it returns not-found: it does not return from the read, and when
\* it returns k is out of the table, by its own Remove and with the index
\* untouched, whether or not a sweep has run.
C29_LazyDelete ==
    [][/\ \A t \in Threads, k \in Keys, T \in Types :
              (live /\ k \in DOMAIN data /\ ExpiredAt(data[k], clock) /\ Get(t, k, T)) =>
                  /\ last' = last
                  /\ pc'[t] = [at |-> "lazy", key |-> k, T |-> T]
       /\ \A t \in Threads :
              (pc[t].at = "lazy" /\ pc'[t].at = "idle" /\ last'.err = "nil") =>
                  /\ last' = NotFound(pc[t].T)
                  /\ pc[t].key \notin DOMAIN data'
                  /\ index' = index]_vars

\* C29 witness: a Get has returned not-found, its key is out of the table,
\* and the bucket of the key's expiry, due by now, is still in the index: no
\* sweep has run since the entry expired.
C29_Witness ==
    /\ \E T \in Types : last = NotFound(T)
    /\ live /\ \A t \in Threads : pc[t].at = "idle"
    /\ \E ts \in DOMAIN index :
          /\ ts <= clock
          /\ \E k \in Range(index[ts]) : k \notin DOMAIN data

\* C30: Remove(k) leaves the expiry index unchanged, so the buckets that
\* name k stay; a later sweep that meets such a bucket does not fail, and it
\* deletes no entry, in particular none stored for k afterwards, unless the
\* entry is itself expired at the time of the sweep.
C30_RemoveLeavesIndex ==
    [][/\ \A t \in Threads, k \in Keys :
              (live /\ Remove(t, k)) =>
                  /\ index' = index
                  /\ \A ts \in DOMAIN index : k \in Range(index[ts]) =>
                        (ts \in DOMAIN index' /\ k \in Range(index'[ts]))
       /\ Sweep =>
              /\ ~Panicked' /\ last' = last
              /\ \A k \in DOMAIN data :
                    \/ k \in DOMAIN data' /\ data'[k] = data[k]
                    \/ ExpiredAt(data[k], clock)
              /\ \A ts \in DOMAIN index : ts \in DOMAIN index' <=> ts > clock]_vars

\* C30 witness: Remove has just deleted a key that a bucket still names; the
\* bucket is due and the janitor runs, so the next sweep meets it.
C30_Witness ==
    /\ last = Ret("Remove", "nil", TRUE, NoVal)
    /\ live /\ jan = "run"
    /\ \E ts \in DOMAIN index :
          /\ ts <= clock
          /\ \E k \in Range(index[ts]) : k \notin DOMAIN data

\* C21, as claimed: with a database configured, when the database call
\* fails during Set, Put, Remove or Clear, the operation reports the failure
\* to its caller as an error, and the change in memory (insert, replace,
\* delete, clear) has been made all the same.
C21_WriteThroughFailure ==
    [][(app.db /\ ~app.dbok /\ app.made) =>
          /\ \A k \in AppKeys, v \in AppValues, a \in AppMaxAges :
                (k \notin DOMAIN app.data /\ AppSet(k, v, a)) =>
                    /\ last'.op = "Set" /\ last'.err = "db"
                    /\ k \in DOMAIN app'.data /\ Bytes(app'.data[k]) = v.v
          /\ \A k \in AppKeys, v \in AppValues, a \in AppMaxAges :
                (AppPut(k, v, a) /\ ~Panicked') =>
                    /\ last'.op = "Put" /\ last'.err = "db"
                    /\ k \in DOMAIN app'.data /\ Bytes(app'.data[k]) = v.v
          /\ \A k \in AppKeys :
                AppRemove(k) =>
                    /\ last'.op = "Remove" /\ last'.err = "db"
                    /\ k \notin DOMAIN app'.data
          /\ AppClear =>
                    /\ last'.op = "Clear" /\ last'.err = "db"
                    /\ DOMAIN app'.data = {}]_vars

\* C22: when New is called with a database path and returns nil, every row
\* (key, blob) of the database is in the entry table before New returns,
\* put there without Set's existence check: whatever the table held, each
\* row's key now maps to the row's blob parsed as a Store (and nothing else
\* is in the table); when the database fails, New returns the error.
C22_NewLoadsRows ==
    [][(last'.op = "New" /\ AppNew(TRUE)) =>
          IF app.dbok
          THEN /\ last' = Ret("New", "nil", TRUE, NoVal)
               /\ app'.db
               /\ DOMAIN app'.data = DOMAIN app.rows
               /\ \A k \in DOMAIN app.rows :
                     app'.data[k] = (IF Len(app.rows[k]) < 32 THEN <<>> ELSE app.rows[k])
               /\ app'.rows = app.rows
          ELSE /\ last'.err = "db" /\ ~last'.ok
               /\ app'.rows = app.rows]_vars

\* C22 witness: New has returned nil on a database with two rows, one whose
\* blob is too short for a Store and one written through by an earlier Set
\* or Put: both keys are in the table, the first with the empty Store.
C22_Witness ==
    /\ last = Ret("New", "nil", TRUE, NoVal)
    /\ app.db /\ app.dbok
    /\ DOMAIN app.rows = AppKeys /\ DOMAIN app.data = AppKeys
    /\ Len(app.rows["a"]) = 31 /\ app.data["a"] = <<>>
    /\ app.data["bb"] = app.rows["bb"] /\ Bytes(app.data["bb"]) = <<120>>

\* the two halves of C23: what Set stores, what Get gives back
C23_SetStoresWord ==
    \A k \in TypedKeys, val \in TypedValues :
        (val.t \in IntTypes /\ k \notin DOMAIN app.data /\ AppSet(k, val, <<>>)
           /\ last'.err = "nil") =>
            Bytes(app'.data[k]) = BigEndian(val.v, 8)

C23_GetReturnsIt ==
    \A k \in TypedKeys, val \in TypedValues :
        (/\ val.t \in IntTypes /\ k \in DOMAIN app.data
         /\ Len(app.data[k]) >= 32 /\ Bytes(app.data[k]) = toBytes(val)
         /\ AppGet(k, val.t)) =>
            last' = Ret("Get", "nil", TRUE, val)

\* C23, as claimed: for every integer type and every value v of it,
\* Set(k, v) stores v as its 64-bit big-endian representation, and a Get of
\* the same type that follows returns v.
C23_IntegerRoundTrip == [][C23_SetStoresWord /\ C23_GetReturnsIt]_vars

\* vocabulary of C24: an entry of the draft is expired when it has a maxAge
\* and that long has passed since its creation
AgedOut(s, now) == MaxAge(s) # 0 /\ now >= CreateAt(s) + MaxAge(s)
RECURSIVE SumOf(_, _)
SumOf(f, S) == IF S = {} THEN 0
               ELSE LET x == CHOOSE y \in S : TRUE IN f[x] + SumOf(f, S \ {x})
\* per key: the bytes of the key plus the 32-byte header plus the payload
Footprint == [k \in DOMAIN app.data |->
                 Len(k) + (IF Len(app.data[k]) >= 32 THEN 32 + Len(Bytes(app.data[k])) ELSE 0)]

C31_OneJanitor ==
    [][(onceDone' /\ ~onceDone) => (~live /\ jan # "run")]_vars

\* C32: when a sweep taken at time nowMs has done its work (the janitor is
\* about to release the mutex), the entry table holds no entry with
\* 0 < expiresAt <= nowMs and the index holds no bucket with timestamp
\* <= nowMs; the sweep's work on the table leaves every entry that is not
\* expired at nowMs as it was, and its work on the index leaves every
\* bucket with a timestamp > nowMs as it was.
C32_SweepPostcondition ==
    [][LET nowMs == job[Janitor].now IN
       /\ writeData(Janitor) =>
             /\ \A k \in DOMAIN data' :
                   ~(0 < data'[k].ExpiresAt /\ data'[k].ExpiresAt <= nowMs)
             /\ \A k \in DOMAIN data :
                   ~ExpiredAt(data[k], nowMs) => (k \in DOMAIN data' /\ data'[k] = data[k])
       /\ writeIndex(Janitor) =>
             /\ \A ts \in DOMAIN index' : ts > nowMs
             /\ \A ts \in DOMAIN index :
                   ts > nowMs => (ts \in DOMAIN index' /\ index'[ts] = index[ts])
       /\ muUnlock(Janitor) =>
             /\ \A k \in DOMAIN data :
                   ~(0 < data[k].ExpiresAt /\ data[k].ExpiresAt <= nowMs)
             /\ \A ts \in DOMAIN index : ts > nowMs
      ]_vars

\* C32 witness: the most recent call was a Put, nothing was called since,
\* and a sweep taken at the second millisecond has just done its work and
\* left the table and the index empty: it has deleted the entry that Put
\* stored and the bucket that listed it.
C32_Witness ==
    /\ live /\ last.op = "Put" /\ \A t \in Threads : pc[t].at = "idle"
    /\ job[Janitor].at = "unlock" /\ job[Janitor].now = 2
    /\ DOMAIN data = {} /\ DOMAIN index = {}

\* C33: whenever no goroutine is inside a critical section of the write
\* lock (so whenever the janitor can take it), every entry in the table with
\* expiresAt > 0 has its key listed in the bucket index[expiresAt], after any
\* interleaving of Set, Put, Remove, Clear, Get and sweeps.
C33_ExpiringEntriesIndexed ==
    mu.w = NoHolder =>
        \A k \in DOMAIN data :
            LET ts == data[k].ExpiresAt IN
            ts > 0 => (ts \in DOMAIN index /\ \E i \in DOMAIN index[ts] : index[ts][i] = k)

\* C33 witness: a Set or Put made at the second millisecond has stored the
\* key with an expiry and listed it in that expiry's bucket, the only bucket
\* of the index, and the janitor is waiting for the mutex to sweep.
C33_Witness ==
    /\ mu.w = NoHolder /\ job[Janitor].at = "lock" /\ job[Janitor].now = 2
    /\ last.op \in {"Set", "Put"} /\ last.err = "nil"
    /\ \E k \in DOMAIN data :
          /\ data[k].CreatedAt = 2 /\ data[k].ExpiresAt = 3
          /\ DOMAIN index = {3} /\ index[3] = <<k>>

\* C34, as claimed: the lazy delete of a Get removes only the expired entry
\* that Get read.  When the table holds a live entry for the key at the time
\* the lazy delete runs (another caller's Set or Put has stored it since the
\* read), that entry is still in the table, as it was, when Get returns.
C34_LazyKeepsFresh ==
    [][\A t \in Threads :
          (/\ live /\ pc[t].at = "lazy" /\ pc'[t].at = "idle"
           /\ InTableLive(pc[t].key))
              => (pc[t].key \in DOMAIN data' /\ data'[pc[t].key] = data[pc[t].key])]_vars

\* C35: of two Set calls with ttl <= 0 that run concurrently on the same
\* absent key, exactly one returns nil and the other returns ErrKeyExists,
\* and the table holds the value of the one that returned nil.  Both calls
\* began while the key was absent; when one has returned and the other has
\* done its work and is about to return, the first has returned nil, the
\* second is about to return ErrKeyExists, and the entry in the table is the
\* one the first built, with no expiry.
C35_OneSetWins ==
    \A t \in Threads :
        (job[t].op = "Set" /\ job[t].at = "unlock" /\ last.op = "Set") =>
            /\ last = Ret("Set", "nil", TRUE, NoVal)
            /\ ~job[t].ok
            /\ job[t].key \in DOMAIN data
            /\ \E u \in Threads \ {t} : data[job[t].key].Value = SetValue[u]
            /\ data[job[t].key].ExpiresAt = 0

\* C35 witness: both goroutines called Set on the absent key; the first
\* stored its value and returned nil, the second found the key taken and is
\* about to return ErrKeyExists.
C35_Witness ==
    /\ last = Ret("Set", "nil", TRUE, NoVal)
    /\ job["t1"].op = "Set" /\ job["t1"].at = "unlock" /\ ~job["t1"].ok
    /\ job["t2"].at = "idle"
    /\ data["a"].Value = SetValue["t2"]

\* C36: Close always returns.  Whatever the janitor is doing when Close is
\* called (waiting for a tick, or in the middle of a sweep, holding the
\* mutex or waiting for it), once stop is closed the janitor closes done,
\* and a caller inside Close gets back out of it.
C36_CloseReturns ==
    /\ \A t \in Callers : (pc[t].at # "idle") ~> (pc[t].at = "idle")
    /\ (stopClosed /\ jan = "run") ~> doneClosed

\* C36 witness: Close has closed stop and released the mutex and is waiting
\* for done, while the janitor is in the middle of a sweep, holding the
\* mutex, and has not seen the stop signal yet.
C36_Witness ==
    /\ \E t \in Callers : pc[t].at = "close"
    /\ stopClosed /\ ~doneClosed /\ jan = "run"
    /\ job[Janitor].at = "data" /\ mu.w = Janitor

\* C37, as claimed: two Close calls that run concurrently on the same cache
\* instance both return without panicking: no Close closes a stop channel
\* that is already closed, and no Close goes through app after the other
\* has set it to nil.
C37_CloseNeverPanics == last.op = "Close" => last.err = "nil"

\* C38, as claimed: a Set, Put, Get, Exist, Remove or Clear that runs
\* concurrently with Close either completes or panics with the
\* not-initialized message of its nil check; no call that has passed its nil
\* check goes through app after Close has set it to nil.
C38_NoNilDereference == last.out # NilDeref

\* C39, as claimed: while the table holds a key that New loaded from a
\* persisted blob shorter than 32 bytes (ParseStore made it the empty Store),
\* no Get, no Size and no round of the expiry sweep panics.
C39_EmptyStoreHarmless ==
    [][(/\ \E k \in DOMAIN app.data : Len(app.data[k]) < DataStartIndex
        /\ last' # last
        /\ last'.op \in {"Get", "Size", "runNode"})
           => last'.err # "panic"]_vars

\* The parameter type of a conversion: its width in bits and whether it is
\* signed.
libBits(f) ==
    CASE f \in {"Uint8ToByte", "Int8ToByte"} -> 8
      [] f \in {"Uint16ToByte", "Int16ToByte"} -> 16
      [] f \in {"Uint32ToByte", "Int32ToByte"} -> 32
      [] OTHER -> 64
libSigned(f) == f \in {"Int8ToByte", "Int16ToByte", "Int32ToByte", "Int64ToByte"}

\* Reading a byte slice back as a number: as an unsigned big-endian value,
\* and as a two's complement value (a slice whose first byte has its top bit
\* set stands for minus one minus the value of its complement).
unsignedOf(b) == beValue(b, Len(b))
signedOf(b) ==
    IF b[1] >= ByteBase \div 2
    THEN -unsignedOf([i \in 1 .. Len(b) |-> ByteBase - 1 - b[i]]) - 1
    ELSE unsignedOf(b)

====
